---------------------------- MODULE Spec2Model ----------------------------
(***************************************************************************)
(* Model of the chunked parallel video pipeline of test-ai-video:          *)
(* the Chunker (split_video_into_chunks), the chunk worker                 *)
(* (process_single_chunk), the dispatcher loops of                         *)
(* ParallelVideoProcessor.process_video and process_directory_parallel,    *)
(* the assembler (assemble_results and the assembly inside                 *)
(* process_single_video_standalone) and the merge into the Master          *)
(* Ontology.                                                               *)
(*                                                                         *)
(* Time is counted in whole seconds for durations and offsets and in       *)
(* milliseconds inside timestamps.  The duration averages of the ontology  *)
(* are exact fractions.                                                    *)
(***************************************************************************)
EXTENDS Integers, Sequences, FiniteSets, TLC

(***************************************************************************)
(* Bounds of the model                                                     *)
(***************************************************************************)
\* longest source duration (seconds) the Chunker harness draws
MaxT == 12
\* largest chunk duration (seconds) the Chunker harness draws
MaxD == 5
\* most clips one service response carries
MaxClips == 2
\* most clips the Ontology harness merges into one ontology
MaxMerges == 3
\* most chunks that lie before the chunk whose timestamps are corrected
MaxOffsetChunks == 2
\* number of process_directory runs on one output directory
MaxRuns == 2
\* most calls the Playbook harness makes on one playbook
MaxLearns == 2
\* examples a playbook loaded from an earlier session holds under one key
PrefillExamples == 49
\* transition examples such a playbook holds under one key
PrefillTransitions == 19

(***************************************************************************)
(* Program constants                                                       *)
(***************************************************************************)
\* parallel_processor.py:25  CHUNK_DURATION = 40
CHUNK_DURATION == 40
\* parallel_processor.py:463  ThreadPoolExecutor(max_workers=4) per video
STANDALONE_CHUNK_WORKERS == 4
\* script_clip_brain.py:109 and 116  len(...) < 50
PLAYBOOK_CAP == 50
\* script_clip_brain.py:137  len(self.transitions[transition_key]) < 20
TRANSITION_CAP == 20
\* clip_ontology_schema.py:32  self.get_top_values(20)
REPORT_TOP == 20

VARIABLES
    \* ---- Chunker harness (split_video_into_chunks on drawn inputs) ----
    ck_T,            \* total_duration returned by get_video_duration
    ck_D,            \* chunk_duration argument
    ck_pc,           \* "call" | "returned" | "raised" | "idle"
    ck_chunks,       \* the returned list of VideoChunk
    \* ---- Pipeline ----
    mode,            \* "single": ParallelVideoProcessor.process_video
                     \* "batch" : process_directory_parallel
                     \* "iterative": IterativeClipAnalyzer.process_video
                     \* "idle"  : pipeline not part of the run
    max_workers,     \* bound of the per-video chunk pool
    max_video_workers, \* bound of the outer (video) pool, batch mode
    mpc,             \* position of the main thread
    vpc,             \* vpc[v]: position of the task of video v
    video_T,         \* video_T[v]: source duration of v, 0 when ffprobe fails
    chunks,          \* chunks[v]: list of VideoChunk of v
    wstate,          \* wstate[v][i]: state of the future of the i-th chunk
    response,        \* response[v][i]: what the service answered for it
    future,          \* future[v][i]: the ChunkResult the worker returned
    chunk_results,   \* chunk_results[v]: results in collection order
    video_clips,     \* video_clips[v]: assembled, renumbered clip list
    video_transcript,\* video_transcript[v]: assembled transcript text
    video_result,    \* video_result[v]: dict returned for v
    all_results,     \* batch: video results in completion order
    agg_i,           \* batch: number of entries of all_results merged
    master_ontology, \* the in-memory MasterClipOntology
    ontology_file,   \* what the pickle at ontology_path holds
    merge_log,       \* history of update_from_clip calls: <<video, clip>>
    \* ---- Ontology harness (update_from_clip on drawn clips) ----
    ont,             \* a MasterClipOntology
    ont_clips,       \* the clips merged into it so far, in merge order
    ont_report,      \* the last category report rendered from it
    \* ---- Playbook (ScriptClipBrain) ----
    brain,           \* the ScriptClipBrain
    pb_last,         \* Playbook harness: the last call made on it
    pb_n,            \* Playbook harness: number of calls made
    \* ---- Timestamp harness (add_time_offset on drawn inputs) ----
    ts_t,            \* the chunk-local timestamp
    ts_O,            \* the chunk offset, seconds
    ts_pc,           \* "call" | "corrected" | "undone" | "idle"
    ts_out,          \* add_time_offset(ts_t, ts_O)
    ts_back,         \* add_time_offset(ts_out, -ts_O)
    \* ---- Adapter harness (process_single_chunk on drawn response texts) ----
    pr_raw,          \* the response text the service streams back
    pr_chunk,        \* the VideoChunk being analysed
    pr_pc,           \* "call" | "parsed" | "api_error" | "idle"
    pr_result,       \* the ChunkResult process_single_chunk returned
    \* ---- Sequential batch processor (batch_processor.process_directory) ----
    processing_log,  \* what processing_log.json holds
    log,             \* the log dict of the running process_directory
    videos,          \* the videos of the run, after the resume filter
    resume,          \* the resume argument of the run
    run              \* number of process_directory runs started so far

chunkerVars == <<ck_T, ck_D, ck_pc, ck_chunks>>

ontologyVars == <<ont, ont_clips, ont_report>>

playbookVars == <<brain, pb_last, pb_n>>

timestampVars == <<ts_t, ts_O, ts_pc, ts_out, ts_back>>

parserVars == <<pr_raw, pr_chunk, pr_pc, pr_result>>

batchVars == <<processing_log, log, videos, resume, run>>

pipelineVars == <<mode, max_workers, max_video_workers, mpc, vpc, video_T,
                  chunks, wstate, response, future, chunk_results,
                  video_clips, video_transcript, video_result, all_results,
                  agg_i, master_ontology, ontology_file, merge_log>>

vars == <<chunkerVars, pipelineVars, ontologyVars, playbookVars, timestampVars,
          parserVars, batchVars>>

\* what a pipeline step, a Chunker harness step and an Ontology harness step
\* leave alone
nonPipelineVars ==
    <<chunkerVars, ontologyVars, playbookVars, timestampVars, parserVars,
      batchVars>>
nonChunkerVars ==
    <<pipelineVars, ontologyVars, playbookVars, timestampVars, parserVars,
      batchVars>>
nonOntologyVars ==
    <<chunkerVars, pipelineVars, playbookVars, timestampVars, parserVars,
      batchVars>>
nonPlaybookVars ==
    <<chunkerVars, pipelineVars, ontologyVars, timestampVars, parserVars,
      batchVars>>
nonTimestampVars ==
    <<chunkerVars, pipelineVars, ontologyVars, playbookVars, parserVars,
      batchVars>>
nonParserVars ==
    <<chunkerVars, pipelineVars, ontologyVars, playbookVars, timestampVars,
      batchVars>>

(***************************************************************************)
(* Helpers                                                                 *)
(***************************************************************************)
Min(a, b) == IF a <= b THEN a ELSE b

(***************************************************************************)
(* Python floats: IEEE 754 doubles, 53 significant bits, every operation   *)
(* rounded to nearest, ties to even                                        *)
(***************************************************************************)
RECURSIVE Pow2(_)
Pow2(k) == IF k = 0 THEN 1 ELSE 2 * Pow2(k - 1)

\* a natural number of any size: its digits in base 2^15, the least
\* significant first, the last one not 0
RECURSIVE NatOfInt(_)
NatOfInt(k) == IF k = 0 THEN << >> ELSE <<k % 32768>> \o NatOfInt(k \div 32768)

RECURSIVE NatNorm(_)
NatNorm(a) ==
    IF a # << >> /\ a[Len(a)] = 0 THEN NatNorm(SubSeq(a, 1, Len(a) - 1)) ELSE a

Digit(a, i) == IF i <= Len(a) THEN a[i] ELSE 0

RECURSIVE NatAddFrom(_, _, _, _)
NatAddFrom(a, b, i, carry) ==
    IF i > Len(a) /\ i > Len(b) THEN NatOfInt(carry)
    ELSE LET x == Digit(a, i) + Digit(b, i) + carry
         IN  <<x % 32768>> \o NatAddFrom(a, b, i + 1, x \div 32768)

NatAdd(a, b) == NatAddFrom(a, b, 1, 0)

RECURSIVE NatSubFrom(_, _, _, _)
NatSubFrom(a, b, i, borrow) ==
    IF i > Len(a) THEN << >>
    ELSE LET x == Digit(a, i) - Digit(b, i) - borrow
         IN  <<IF x < 0 THEN x + 32768 ELSE x>>
                \o NatSubFrom(a, b, i + 1, IF x < 0 THEN 1 ELSE 0)

\* a - b, for a >= b
NatSub(a, b) == NatNorm(NatSubFrom(a, b, 1, 0))

RECURSIVE NatLessFrom(_, _, _)
NatLessFrom(a, b, i) ==
    IF i = 0 THEN FALSE
    ELSE IF a[i] # b[i] THEN a[i] < b[i]
    ELSE NatLessFrom(a, b, i - 1)

NatLess(a, b) ==
    IF Len(a) # Len(b) THEN Len(a) < Len(b) ELSE NatLessFrom(a, b, Len(a))

RECURSIVE NatTimesFrom(_, _, _, _)
NatTimesFrom(a, k, i, carry) ==
    IF i > Len(a) THEN NatOfInt(carry)
    ELSE LET x == a[i] * k + carry
         IN  <<x % 32768>> \o NatTimesFrom(a, k, i + 1, x \div 32768)

\* a * k, for 0 <= k <= 2^15
NatTimes(a, k) == IF k = 0 THEN << >> ELSE NatTimesFrom(a, k, 1, 0)

RECURSIVE NatDivFrom(_, _, _, _)
NatDivFrom(a, k, i, r) ==
    IF i = 0 THEN [q |-> << >>, r |-> r]
    ELSE LET cur == r * 32768 + a[i]
             rest == NatDivFrom(a, k, i - 1, cur % k)
         IN  [q |-> rest.q \o <<cur \div k>>, r |-> rest.r]

\* quotient and remainder of a by k, for 0 < k <= 2^15
NatDiv(a, k) ==
    LET d == NatDivFrom(a, k, Len(a), 0)
    IN  [q |-> NatNorm(d.q), r |-> d.r]

\* a * 2^s and a \div 2^s
NatShl(a, s) ==
    IF a = << >> THEN << >>
    ELSE [i \in 1..(s \div 15) |-> 0] \o NatTimes(a, Pow2(s % 15))

NatShr(a, s) == NatDiv(SubSeq(a, (s \div 15) + 1, Len(a)), Pow2(s % 15)).q

RECURSIVE BitsOfDigit(_)
BitsOfDigit(k) == IF k = 0 THEN 0 ELSE 1 + BitsOfDigit(k \div 2)

\* number of significant bits of a
BitLen(a) ==
    IF a = << >> THEN 0 ELSE 15 * (Len(a) - 1) + BitsOfDigit(a[Len(a)])

\* the number (-1)^neg * m * 2^e in its one form: m odd, or 0
RECURSIVE Dyadic(_, _, _)
Dyadic(neg, m, e) ==
    IF m = << >> THEN [neg |-> FALSE, m |-> << >>, e |-> 0]
    ELSE IF m[1] = 0 THEN Dyadic(neg, Tail(m), e + 15)
    ELSE IF m[1] % 2 = 0 THEN Dyadic(neg, NatDiv(m, 2).q, e + 1)
    ELSE [neg |-> neg, m |-> m, e |-> e]

\* the double nearest to (-1)^neg * m * 2^e: m is cut to 53 bits, and
\* rounded up when the rest is above a half, or is a half and the cut m
\* is odd
fl(neg, m, e) ==
    LET s == BitLen(m) - 53
    IN  IF s <= 0 THEN Dyadic(neg, m, e)
        ELSE LET q == NatShr(m, s)
                 r == NatSub(m, NatShl(q, s))
                 half == NatShl(<<1>>, s - 1)
                 up == NatLess(half, r) \/ (r = half /\ q[1] % 2 = 1)
             IN  Dyadic(neg, IF up THEN NatAdd(q, <<1>>) ELSE q, e + s)

\* x + y
fl_add(x, y) ==
    LET e == Min(x.e, y.e)
        a == NatShl(x.m, x.e - e)
        b == NatShl(y.m, y.e - e)
    IN  IF x.neg = y.neg THEN fl(x.neg, NatAdd(a, b), e)
        ELSE IF NatLess(a, b) THEN fl(y.neg, NatSub(b, a), e)
        ELSE fl(x.neg, NatSub(a, b), e)

\* x - y
fl_sub(x, y) == fl_add(x, [y EXCEPT !.neg = ~@])

\* x * k for an int k >= 0
fl_mul(x, k) == fl(x.neg, NatTimes(x.m, k), x.e)

\* x / k for an int k >= 1: the quotient is taken to 75 bits below x, a
\* last bit standing for a remainder
fl_div(x, k) ==
    LET d == NatDiv(NatShl(x.m, 75), k)
    IN  IF d.r = 0 THEN fl(x.neg, d.q, x.e - 75)
        ELSE fl(x.neg, NatAdd(NatTimes(d.q, 2), <<1>>), x.e - 76)

\* the number n/d (d >= 1) as Python holds it: the int n when d = 1, else
\* the float nearest to n/d
Number(n, d) ==
    fl_div([neg |-> n < 0, m |-> NatOfInt(IF n < 0 THEN -n ELSE n), e |-> 0], d)

\* x < y
fl_less(x, y) ==
    LET e == Min(x.e, y.e)
        a == NatShl(x.m, x.e - e)
        b == NatShl(y.m, y.e - e)
    IN  IF x.neg # y.neg THEN x.neg
        ELSE IF x.neg THEN NatLess(b, a) ELSE NatLess(a, b)

RECURSIVE SumDurations(_)
SumDurations(cs) ==
    IF cs = << >> THEN 0 ELSE cs[1].duration + SumDurations(Tail(cs))

RECURSIVE Flatten(_)
Flatten(ss) == IF ss = << >> THEN << >> ELSE ss[1] \o Flatten(Tail(ss))

(***************************************************************************)
(* Chunker: split_video_into_chunks                                        *)
(***************************************************************************)
VideoChunk(i, off, d) == [chunk_index |-> i, start_offset |-> off, duration |-> d]

\* the while loop of split_video_into_chunks, lines 83-126
RECURSIVE split_loop(_, _, _, _, _)
split_loop(total_duration, chunk_duration, current_time, chunk_index, acc) ==
    IF current_time < total_duration
    THEN LET remaining == total_duration - current_time
             this_chunk_duration == Min(chunk_duration, remaining)
         IN  split_loop(total_duration, chunk_duration,
                        current_time + chunk_duration, chunk_index + 1,
                        Append(acc, VideoChunk(chunk_index, current_time,
                                               this_chunk_duration)))
    ELSE acc

\* faulty variant of the loop: every chunk gets the full chunk_duration (no min with remaining)
RECURSIVE split_loop_nomin(_, _, _, _, _)
split_loop_nomin(total_duration, chunk_duration, current_time, chunk_index, acc) ==
    IF current_time < total_duration
    THEN split_loop_nomin(total_duration, chunk_duration,
                          current_time + chunk_duration, chunk_index + 1,
                          Append(acc, VideoChunk(chunk_index, current_time,
                                                 chunk_duration)))
    ELSE acc

\* faulty variant of the loop: the loop test is <= instead of <
RECURSIVE split_loop_le(_, _, _, _, _)
split_loop_le(total_duration, chunk_duration, current_time, chunk_index, acc) ==
    IF current_time <= total_duration
    THEN LET remaining == total_duration - current_time
             this_chunk_duration == Min(chunk_duration, remaining)
         IN  split_loop_le(total_duration, chunk_duration,
                           current_time + chunk_duration, chunk_index + 1,
                           Append(acc, VideoChunk(chunk_index, current_time,
                                                  this_chunk_duration)))
    ELSE acc

split_video_into_chunks_nomin(total_duration, chunk_duration) ==
    split_loop_nomin(total_duration, chunk_duration, 0, 0, << >>)

split_video_into_chunks_le(total_duration, chunk_duration) ==
    split_loop_le(total_duration, chunk_duration, 0, 0, << >>)

\* the list split_video_into_chunks returns when every extraction succeeds
split_video_into_chunks(total_duration, chunk_duration) ==
    split_loop(total_duration, chunk_duration, 0, 0, << >>)

(***************************************************************************)
(* Chunker harness: the function applied to drawn inputs                   *)
(***************************************************************************)
ChunkerInit ==
    /\ ck_T \in 1..MaxT
    /\ ck_D \in 1..MaxD
    /\ ck_pc = "call"
    /\ ck_chunks = << >>

\* every ffmpeg extraction (copy, or the re-encode after a failed copy) succeeds
ChunkerReturns ==
    /\ ck_pc = "call"
    /\ ck_chunks' = split_video_into_chunks(ck_T, ck_D)
    /\ ck_pc' = "returned"
    /\ UNCHANGED <<nonChunkerVars, ck_T, ck_D>>

\* the re-encode of some chunk fails too: CalledProcessError leaves the function
ChunkerRaises ==
    /\ ck_pc = "call"
    /\ ck_pc' = "raised"
    /\ UNCHANGED <<nonChunkerVars, ck_T, ck_D, ck_chunks>>

ChunkerNext ==
    \/ ChunkerReturns
    \/ ChunkerRaises


(***************************************************************************)
(* Timestamps: the text "MM:SS.mmm" is held as its three numbers; an empty *)
(* string and a text that does not parse are kinds of their own.           *)
(***************************************************************************)
Ts(m, s, k) == [kind |-> "ok", min |-> m, sec |-> s, ms |-> k]
EmptyTs == [kind |-> "empty", min |-> 0, sec |-> 0, ms |-> 0]
BadTs == [kind |-> "bad", min |-> 0, sec |-> 0, ms |-> 0]

\* the timestamp text of a time given in milliseconds, "MM:SS.mmm"
TsOfMs(t) == Ts(t \div 60000, (t % 60000) \div 1000, t % 1000)

\* what add_time_offset parses out of the text, in milliseconds
TsValueMs(ts) == (ts.min * 60 + ts.sec) * 1000 + ts.ms

\* faulty variant: the offset is dropped
add_time_offset_nooffset(timestamp, offset_seconds) == timestamp

\* faulty variant: the seconds are rendered without their fraction
add_time_offset_wholeseconds(timestamp, offset_seconds) ==
    IF timestamp.kind = "empty" THEN timestamp
    ELSE IF timestamp.kind = "bad" THEN timestamp
    ELSE LET total_ms == TsValueMs(timestamp) + offset_seconds * 1000
         IN  Ts(total_ms \div 60000, (total_ms % 60000) \div 1000, 0)

\* faulty variant: the offset is counted twice
add_time_offset_twice(timestamp, offset_seconds) ==
    IF timestamp.kind = "empty" THEN timestamp
    ELSE IF timestamp.kind = "bad" THEN timestamp
    ELSE LET total_ms == TsValueMs(timestamp) + 2 * offset_seconds * 1000
             new_minutes == total_ms \div 60000
             new_seconds_ms == total_ms % 60000
         IN  Ts(new_minutes, new_seconds_ms \div 1000, new_seconds_ms % 1000)

\* add_time_offset, lines 132-150
add_time_offset(timestamp, offset_seconds) ==
    IF timestamp.kind = "empty" THEN timestamp
    ELSE IF timestamp.kind = "bad" THEN timestamp
    ELSE LET total_ms == TsValueMs(timestamp) + offset_seconds * 1000
             new_minutes == total_ms \div 60000
             new_seconds_ms == total_ms % 60000
         IN  Ts(new_minutes, new_seconds_ms \div 1000, new_seconds_ms % 1000)

(***************************************************************************)
(* ClipOntology: the fields of a clip that the merge reads, with the       *)
(* defaults of the dataclass (clip_ontology_schema.py lines 39-84)         *)
(***************************************************************************)
\* the doubles of the whole numbers of seconds the service's answers carry
WholeSeconds == [n \in 0..16 |-> Number(n, 1)]

BlankClipOntology ==
    [timestamp_start |-> EmptyTs, timestamp_end |-> EmptyTs,
     duration_seconds |-> WholeSeconds[0], script_segment |-> << >>,
     shot_type |-> "", camera_angle |-> "", camera_movement |-> "",
     composition |-> "", setting_type |-> "", lighting_style |-> "",
     setting_description |-> "",
     color_mood |-> "", subject_type |-> "", subject_description |-> "",
     subject_action |-> "", text_on_screen |-> << >>, text_purpose |-> "",
     primary_emotion |-> "", secondary_emotion |-> "",
     emotional_intensity |-> "",
     clip_function |-> "", narrative_role |-> "", persuasion_mechanism |-> "",
     transition_in |-> "", transition_out |-> ""]

(***************************************************************************)
(* The Clip Extraction Service's answers for one chunk                     *)
(***************************************************************************)
\* text tokens: a transcript is a sequence of tokens
Words(c) == [t |-> "words", chunk |-> c, error |-> ""]
Space == [t |-> "space", chunk |-> -1, error |-> ""]

\* the k-th clip record of the answer for chunk c, as
\* _convert_to_clip_ontology (iterative_analyzer.py lines 289-335) reads it:
\* chunk-local timestamps 7.5 s apart, a duration of whole seconds that
\* differs from chunk to chunk, the first clip of a chunk a hook and the
\* others calls to action, the fields the answer leaves out empty
ClipData(c, k) ==
    [BlankClipOntology EXCEPT
        !.timestamp_start = TsOfMs((k - 1) * 7500),
        !.timestamp_end = TsOfMs(k * 7500),
        !.duration_seconds = WholeSeconds[6 + k + c],
        !.script_segment = <<c, k>>,
        !.shot_type = "close-up",
        !.primary_emotion = "joy",
        !.clip_function = IF k = 1 THEN "hook" ELSE "cta",
        !.transition_in = "cut",
        !.transition_out = "cut"]

\* str(e) of what analyze_video raises: lines 244 and 273 of iterative_analyzer.py
ServiceErrors == {"Gemini API error", "No JSON found in response"}

OkResponse(c, n) ==
    [kind |-> "ok",
     clips |-> [k \in 1..n |-> ClipData(c, k)],
     transcript |-> IF n = 0 THEN << >> ELSE <<Words(c)>>,
     error |-> ""]

ErrorResponse(e) ==
    [kind |-> "error", clips |-> << >>, transcript |-> << >>, error |-> e]

NoResponse == [kind |-> "none", clips |-> << >>, transcript |-> << >>, error |-> ""]

\* an answer of one clip whose record carries no usable times: no
\* "duration_seconds" and no "timestamp_end" (the defaults 0 and '' of
\* iterative_analyzer.py lines 296-298), and a "timestamp_start" that is
\* not of the form MM:SS
UntimedResponse(c) ==
    [OkResponse(c, 1) EXCEPT
        !.clips = <<[ClipData(c, 1) EXCEPT !.duration_seconds = WholeSeconds[0],
                                            !.timestamp_start = BadTs,
                                            !.timestamp_end = EmptyTs]>>]

Responses(c) ==
    { OkResponse(c, n) : n \in 0..MaxClips } \cup {UntimedResponse(c)}
        \cup { ErrorResponse(e) : e \in ServiceErrors }

(***************************************************************************)
(* Chunk worker: process_single_chunk                                      *)
(***************************************************************************)
\* AnnotatedClip(clip_number, ontology): the number next to the fields of
\* the ClipOntology
AnnotatedClip(n, o) == [clip_number |-> n] @@ o

ChunkResult(i, off, cl, tr, ok, err) ==
    [chunk_index |-> i, start_offset |-> off, clips |-> cl,
     transcript |-> tr, success |-> ok, error |-> err]

NoResult == ChunkResult(-1, 0, << >>, << >>, FALSE, "")

\* process_single_chunk, lines 153-210: the value it returns for an answer
process_single_chunk(chunk, resp) ==
    IF resp.kind = "ok"
    THEN ChunkResult(chunk.chunk_index, chunk.start_offset,
            [k \in 1..Len(resp.clips) |->
                AnnotatedClip(0,
                   [resp.clips[k] EXCEPT
                       !.timestamp_start = add_time_offset(@, chunk.start_offset),
                       !.timestamp_end = add_time_offset(@, chunk.start_offset)])],
            resp.transcript, TRUE, "")
    ELSE ChunkResult(chunk.chunk_index, chunk.start_offset, << >>, << >>,
                     FALSE, resp.error)

(***************************************************************************)
(* Assembler                                                               *)
(***************************************************************************)
\* insertion of r into a list sorted by chunk_index, after equal keys (stable)
RECURSIVE InsertByChunkIndex(_, _)
InsertByChunkIndex(r, s) ==
    IF s = << >> THEN <<r>>
    ELSE IF r.chunk_index < s[1].chunk_index THEN <<r>> \o s
    ELSE <<s[1]>> \o InsertByChunkIndex(r, Tail(s))

RECURSIVE SortFrom(_, _)
SortFrom(rs, acc) ==
    IF rs = << >> THEN acc ELSE SortFrom(Tail(rs), InsertByChunkIndex(rs[1], acc))

\* faulty variant: the results are taken in arrival order
sorted_by_chunk_index_unsorted(rs) == rs

\* sorted(chunk_results, key=lambda r: r.chunk_index), lines 222 and 491
sorted_by_chunk_index(rs) == SortFrom(rs, << >>)

\* faulty variant: the test of result.success is inverted
collect_clips_inverted(sorted_results) ==
    Flatten([i \in 1..Len(sorted_results) |->
               IF ~sorted_results[i].success THEN sorted_results[i].clips ELSE << >>])

\* all_clips after the loop of lines 227-234 (498-504): clips of successful chunks
collect_clips(sorted_results) ==
    Flatten([i \in 1..Len(sorted_results) |->
               IF sorted_results[i].success THEN sorted_results[i].clips ELSE << >>])

FailedWithReason(r) == [t |-> "failed: reason", chunk |-> r.chunk_index, error |-> r.error]
FailedPlain(r) == [t |-> "failed", chunk |-> r.chunk_index, error |-> ""]

\* transcript_parts of assemble_results, lines 227-234
RECURSIVE transcript_parts(_)
transcript_parts(sorted_results) ==
    IF sorted_results = << >> THEN << >>
    ELSE LET r == sorted_results[1]
             rest == transcript_parts(Tail(sorted_results))
         IN  IF r.success
             THEN (IF r.transcript # << >> THEN <<r.transcript>> ELSE << >>) \o rest
             ELSE << <<FailedWithReason(r)>> >> \o rest

\* transcript_parts of process_single_video_standalone, lines 498-504
RECURSIVE transcript_parts_standalone(_)
transcript_parts_standalone(sorted_results) ==
    IF sorted_results = << >> THEN << >>
    ELSE LET r == sorted_results[1]
             rest == transcript_parts_standalone(Tail(sorted_results))
         IN  IF r.success
             THEN (IF r.transcript # << >> THEN <<r.transcript>> ELSE << >>) \o rest
             ELSE << <<FailedPlain(r)>> >> \o rest

\* ' '.join(parts)
RECURSIVE join(_)
join(parts) ==
    IF parts = << >> THEN << >>
    ELSE IF Len(parts) = 1 THEN parts[1]
    ELSE parts[1] \o <<Space>> \o join(Tail(parts))

\* faulty variant: numbering starts at 0
renumber_from0(all_clips) ==
    [i \in 1..Len(all_clips) |-> [all_clips[i] EXCEPT !.clip_number = i - 1]]

\* for i, clip in enumerate(all_clips, 1): clip.clip_number = i  (lines 237-238, 507-508)
renumber(all_clips) ==
    [i \in 1..Len(all_clips) |-> [all_clips[i] EXCEPT !.clip_number = i]]

(***************************************************************************)
(* Master Ontology                                                         *)
(***************************************************************************)
\* ---- finite maps (dict) ----
EmptyMap == [x \in {} |-> 0]

\* d.get(k, default)
MapGet(d, k, default) == IF k \in DOMAIN d THEN d[k] ELSE default

\* d[k] = v
MapPut(d, k, v) == [x \in DOMAIN d \cup {k} |-> IF x = k THEN v ELSE d[x]]

\* ---- OntologyCategory, clip_ontology_schema.py lines 14-27 ----
EmptyCategory == [values |-> {}, frequency |-> EmptyMap]

\* faulty variant: the value is added without the test for the empty string
add_value_unguarded(cat, value) ==
    [values |-> cat.values \cup {value},
     frequency |-> MapPut(cat.frequency, value, MapGet(cat.frequency, value, 0) + 1)]

\* faulty variant: a value already present keeps its count
add_value_once(cat, value) ==
    IF value # ""
    THEN [values |-> cat.values \cup {value},
          frequency |-> MapPut(cat.frequency, value, MapGet(cat.frequency, value, 1))]
    ELSE cat

\* OntologyCategory.add_value, lines 21-24
add_value(cat, value) ==
    IF value # ""
    THEN [values |-> cat.values \cup {value},
          frequency |-> MapPut(cat.frequency, value, MapGet(cat.frequency, value, 0) + 1)]
    ELSE cat

\* the add_value calls of update_from_clip in call order, lines 138-162:
\* <<category, attribute of the clip>>
CategoryFeeds ==
    << <<"shot_types", "shot_type">>,
       <<"camera_angles", "camera_angle">>,
       <<"camera_movements", "camera_movement">>,
       <<"compositions", "composition">>,
       <<"setting_types", "setting_type">>,
       <<"lighting_styles", "lighting_style">>,
       <<"color_moods", "color_mood">>,
       <<"subject_types", "subject_type">>,
       <<"subject_actions", "subject_action">>,
       <<"text_purposes", "text_purpose">>,
       <<"emotions", "primary_emotion">>,
       <<"emotions", "secondary_emotion">>,
       <<"emotional_intensities", "emotional_intensity">>,
       <<"clip_functions", "clip_function">>,
       <<"narrative_roles", "narrative_role">>,
       <<"persuasion_mechanisms", "persuasion_mechanism">>,
       <<"transition_types", "transition_in">>,
       <<"transition_types", "transition_out">> >>

\* the OntologyCategory fields of MasterClipOntology, lines 98-122
CategoryNames == { CategoryFeeds[i][1] : i \in 1..Len(CategoryFeeds) }

RECURSIVE add_values(_, _, _)
add_values(cats, clip, feeds) ==
    IF feeds = << >> THEN cats
    ELSE add_values([cats EXCEPT ![feeds[1][1]] = add_value(@, clip[feeds[1][2]])],
                    clip, Tail(feeds))

\* ---- MasterClipOntology, lines 86-131 ----
EmptyOntology ==
    [videos_analyzed |-> 0,
     total_clips_analyzed |-> 0,
     categories |-> [c \in CategoryNames |-> EmptyCategory],
     common_sequences |-> << >>,
     function_duration_averages |-> EmptyMap,
     emotion_function_correlations |-> EmptyMap]

\* the file at ontology_path: absent, the pickle of an ontology
\* (save_binary, lines 295-299) or its text report (save, lines 182-185)
NoFile == [exists |-> FALSE, format |-> "none", content |-> EmptyOntology]
FileOf(o) == [exists |-> TRUE, format |-> "pickle", content |-> o]
TextFileOf(o) == [exists |-> TRUE, format |-> "text", content |-> o]

\* pickle.load of line 307 raises on a file that is not a pickle
Unpicklable(file) == file.exists /\ file.format # "pickle"

\* MasterClipOntology.load_binary, clip_ontology_schema.py lines 301-308,
\* with the os.path.exists test of its callers, on a file that is absent
\* or a pickle
load_binary(file) == IF file.exists THEN file.content ELSE EmptyOntology

\* (old_avg * (count - 1) + clip.duration_seconds) / count, line 172, in
\* the double arithmetic of Python: the product, the sum and the quotient
\* are each rounded
running_average(old_avg, count, duration_seconds) ==
    fl_div(fl_add(fl_mul(old_avg, count - 1), duration_seconds), count)

\* the duration tracking of update_from_clip, lines 164-172, over the
\* categories the add_value calls have already updated
track_duration(averages, cats, clip) ==
    IF clip.clip_function # "" /\ fl_less(Number(0, 1), clip.duration_seconds)
    THEN LET func == clip.clip_function
         IN  IF func \notin DOMAIN averages
             THEN MapPut(averages, func, clip.duration_seconds)
             ELSE LET old_avg == averages[func]
                      count == MapGet(cats["clip_functions"].frequency, func, 1)
                  IN  MapPut(averages, func,
                             running_average(old_avg, count, clip.duration_seconds))
    ELSE averages

\* faulty variant: the co-occurrence entry is set to 1, not incremented
count_correlation_reset(correlations, func, emotion) ==
    MapPut(correlations, func,
           MapPut(MapGet(correlations, func, EmptyMap), emotion, 1))

\* lines 178-180: create the function's row if missing, increment the entry
count_correlation(correlations, func, emotion) ==
    MapPut(correlations, func,
           MapPut(MapGet(correlations, func, EmptyMap), emotion,
                  MapGet(MapGet(correlations, func, EmptyMap), emotion, 0) + 1))

\* faulty variant: the co-occurrence is counted for clips without a function
track_correlation_anyfunction(correlations, clip) ==
    IF clip.primary_emotion # ""
    THEN count_correlation(correlations, clip.clip_function, clip.primary_emotion)
    ELSE correlations

\* the correlation tracking of update_from_clip, lines 174-180
track_correlation(correlations, clip) ==
    IF clip.clip_function # "" /\ clip.primary_emotion # ""
    THEN count_correlation(correlations, clip.clip_function, clip.primary_emotion)
    ELSE correlations

\* MasterClipOntology.update_from_clip, clip_ontology_schema.py lines 133-180
update_from_clip(o, clip) ==
    LET cats == add_values(o.categories, clip, CategoryFeeds)
    IN  [o EXCEPT
           !.total_clips_analyzed = @ + 1,
           !.categories = cats,
           !.function_duration_averages = track_duration(@, cats, clip),
           !.emotion_function_correlations = track_correlation(@, clip)]

RECURSIVE merge_clips(_, _)
merge_clips(o, clips) ==
    IF clips = << >> THEN o
    ELSE merge_clips(update_from_clip(o, clips[1]), Tail(clips))

\* a snapshot left by an earlier run over one video of two clips
PriorOntology ==
    [merge_clips(EmptyOntology, <<AnnotatedClip(1, ClipData(0, 1)),
                                  AnnotatedClip(2, ClipData(0, 2))>>)
        EXCEPT !.videos_analyzed = 1]

\* faulty variant: the clips are merged last to first
merge_calls_reversed(v, clips) ==
    [i \in 1..Len(clips) |-> [video |-> v, clip |-> clips[Len(clips) + 1 - i]]]

\* the update_from_clip calls made for one video's clip list, in call order
\* (the loop of lines 237-240, and of lines 690-691)
merge_calls(v, clips) ==
    [i \in 1..Len(clips) |-> [video |-> v, clip |-> clips[i]]]


(***************************************************************************)
(* OntologyCategory.get_top_values and to_text                             *)
(* (clip_ontology_schema.py lines 26-36).  values is a Python set: the     *)
(* order in which sorted() reads it is not fixed by the program, so it is  *)
(* an input of the rendering.                                              *)
(***************************************************************************)
\* every order in which a set can be iterated
IterationOrders(S) ==
    { order \in [1..Cardinality(S) -> S] :
          \A i, j \in 1..Cardinality(S) : i # j => order[i] # order[j] }

\* insertion into a list sorted by descending key, after the elements of
\* equal key: sorted(..., reverse=True) keeps equal elements in input order
RECURSIVE InsertDescending(_, _, _)
InsertDescending(v, sorted, frequency) ==
    IF sorted = << >> THEN <<v>>
    ELSE IF MapGet(frequency, v, 0) > MapGet(frequency, sorted[1], 0)
    THEN <<v>> \o sorted
    ELSE <<sorted[1]>> \o InsertDescending(v, Tail(sorted), frequency)

RECURSIVE SortDescending(_, _, _)
SortDescending(order, acc, frequency) ==
    IF order = << >> THEN acc
    ELSE SortDescending(Tail(order), InsertDescending(order[1], acc, frequency),
                        frequency)

\* get_top_values(n): sorted(self.values, key=frequency, reverse=True)[:n]
get_top_values(cat, order, n) ==
    LET sorted == SortDescending(order, << >>, cat.frequency)
    IN  SubSeq(sorted, 1, Min(n, Len(sorted)))

\* to_text: one line "  value (Nx)" per value of get_top_values(20)
to_text(cat, order) ==
    LET sorted_vals == get_top_values(cat, order, REPORT_TOP)
    IN  [i \in 1..Len(sorted_vals) |->
            [value |-> sorted_vals[i],
             count |-> MapGet(cat.frequency, sorted_vals[i], 0)]]

(***************************************************************************)
(* Ontology harness: update_from_clip applied to drawn clips, starting     *)
(* from MasterClipOntology()                                               *)
(***************************************************************************)
\* a ClipOntology with the given function, duration, emotions, transitions
\* and shot type, every other field at its default
DrawnClip(func, dur, primary, secondary, t_in, t_out, shot) ==
    [BlankClipOntology EXCEPT
        !.clip_function = func,
        !.duration_seconds = dur,
        !.primary_emotion = primary,
        !.secondary_emotion = secondary,
        !.transition_in = t_in,
        !.transition_out = t_out,
        !.shot_type = shot]

\* the clips the harness draws from: functions "hook", "cta" and none;
\* durations of whole seconds, positive, zero and negative, and of a tenth
\* of a second; emotions and transitions equal, different and missing
SampleClips ==
    { DrawnClip("hook", Number(10, 1), "joy", "fear", "cut", "fade", "close-up"),
      DrawnClip("hook", Number(0, 1), "joy", "joy", "cut", "cut", ""),
      DrawnClip("hook", Number(4, 1), "", "joy", "", "fade", "wide"),
      DrawnClip("hook", Number(1, 1), "fear", "", "", "", "close-up"),
      DrawnClip("cta", Number(4, 1), "fear", "", "fade", "", ""),
      DrawnClip("cta", Number(-2, 1), "", "", "", "", ""),
      DrawnClip("", Number(10, 1), "joy", "fear", "cut", "", "wide"),
      DrawnClip("hook", Number(1, 10), "", "", "", "", ""),
      BlankClipOntology }

NoReport == [category |-> "", lines |-> << >>]

OntologyInit ==
    /\ ont = EmptyOntology
    /\ ont_clips = << >>
    /\ ont_report = NoReport

\* one call of update_from_clip
OntMerge ==
    /\ mode = "idle"
    /\ ck_pc = "idle"
    /\ Len(ont_clips) < MaxMerges
    /\ \E clip \in SampleClips :
          /\ ont' = update_from_clip(ont, clip)
          /\ ont_clips' = Append(ont_clips, clip)
    /\ ont_report' = NoReport
    /\ UNCHANGED nonOntologyVars

\* one call of OntologyCategory.to_text on a category that has values; the
\* set is iterated in some order of its own
OntReport ==
    /\ ont_report = NoReport
    /\ \E name \in CategoryNames :
          /\ ont.categories[name].values # {}
          /\ \E order \in IterationOrders(ont.categories[name].values) :
                ont_report' = [category |-> name,
                               lines |-> to_text(ont.categories[name], order)]
    /\ UNCHANGED <<ont, ont_clips>>
    /\ UNCHANGED nonOntologyVars

OntologyNext ==
    \/ OntMerge
    \/ OntReport

(***************************************************************************)
(* Playbook: ScriptClipBrain (script_clip_brain.py)                        *)
(*                                                                         *)
(* A script text is the sequence of its code points (ASCII), so that       *)
(* strip() and lower() are computed; the attribute texts (subject_type,    *)
(* setting_type, ...) are strings, lower-cased and searched by table over  *)
(* the texts the model draws.  updated_at, a wall-clock stamp, is left out.*)
(***************************************************************************)
\* str.strip(): the white space (tab to carriage return, and space) is
\* taken off both ends
RECURSIVE strip(_)
strip(s) ==
    IF s # << >> /\ s[1] \in {9, 10, 11, 12, 13, 32} THEN strip(Tail(s))
    ELSE IF s # << >> /\ s[Len(s)] \in {9, 10, 11, 12, 13, 32}
    THEN strip(SubSeq(s, 1, Len(s) - 1))
    ELSE s

\* str.lower() on a script text: A-Z become a-z
lower(s) == [i \in 1..Len(s) |-> IF s[i] \in 65..90 THEN s[i] + 32 ELSE s[i]]

\* the texts of the scripts the model draws
Script ==
    [Buy |-> <<66, 117, 121>>,            \* "Buy"
     buy |-> <<98, 117, 121>>,            \* "buy"
     BUY |-> <<32, 66, 85, 89, 32>>,      \* " BUY "
     Hi |-> <<72, 105>>,                  \* "Hi"
     Go |-> <<71, 111>>,                  \* "Go"
     blank |-> <<32, 32>>]                \* "  "

\* str.lower() on an attribute text
attr_lower(text) ==
    CASE text = "Person" -> "person"
      [] text = "Speaking" -> "speaking"
      [] text = "New Product" -> "new product"
      [] OTHER -> text

\* `word in text` for the key words _determine_clip_type looks for
contains(word, text) ==
    word \in (CASE text \in {"woman holding product", "new product"} ->
                       {"product"}
                [] text = "happy customer" -> {"customer"}
                [] text = "a testimonial" -> {"testimonial"}
                [] text \in {"screen_recording", "desktop screen_recording"} ->
                       {"screen_recording"}
                [] text = "product" -> {"product"}
                [] OTHER -> {})

\* d.get(key, default) on a field of the raw clip record; "<absent>" marks
\* a key the record does not carry
dict_get(value, default) == IF value = "<absent>" THEN default ELSE value

\* the keys of playbook (__post_init__, lines 61-80)
ClipTypes ==
    {"product_shot", "text_graphic", "screen_demo", "talking_head",
     "demonstration", "testimonial", "lifestyle", "broll", "other"}

\* faulty variant: the action of a person is looked at before the product
_determine_clip_type_person_first(clip) ==
    LET subject == attr_lower(clip.subject_type)
        setting == attr_lower(clip.setting_type)
        subject_desc == attr_lower(clip.subject_description)
        subject_action == attr_lower(clip.subject_action)
    IN  IF subject = "person" /\ subject_action = "speaking"
        THEN "talking_head"
        ELSE IF subject = "product" \/ contains("product", subject_desc)
        THEN "product_shot"
        ELSE IF subject \in {"text_screen", "graphic"} THEN "text_graphic"
        ELSE IF contains("screen_recording", setting) THEN "screen_demo"
        ELSE IF subject = "person"
        THEN IF subject_action = "demonstrating" THEN "demonstration"
             ELSE IF contains("testimonial", subject_desc)
                     \/ contains("customer", subject_desc)
             THEN "testimonial"
             ELSE "lifestyle"
        ELSE IF subject = "b_roll" THEN "broll"
        ELSE "other"

\* _determine_clip_type (lines 150-175)
_determine_clip_type(clip) ==
    LET subject == attr_lower(clip.subject_type)
        setting == attr_lower(clip.setting_type)
        subject_desc == attr_lower(clip.subject_description)
        subject_action == attr_lower(clip.subject_action)
    IN  IF subject = "product" \/ contains("product", subject_desc)
        THEN "product_shot"
        ELSE IF subject \in {"text_screen", "graphic"} THEN "text_graphic"
        ELSE IF contains("screen_recording", setting) THEN "screen_demo"
        ELSE IF subject = "person"
        THEN IF subject_action = "speaking" THEN "talking_head"
             ELSE IF subject_action = "demonstrating" THEN "demonstration"
             ELSE IF contains("testimonial", subject_desc)
                     \/ contains("customer", subject_desc)
             THEN "testimonial"
             ELSE "lifestyle"
        ELSE IF subject = "b_roll" THEN "broll"
        ELSE "other"

\* the example learn_from_clip builds (lines 87-102)
Example(clip) ==
    [script |-> strip(clip.script_segment),
     clip_type |-> _determine_clip_type(clip),
     visual_description |-> clip.subject_description,
     setting |-> clip.setting_description,
     setting_type |-> clip.setting_type,
     subject_type |-> clip.subject_type,
     subject_action |-> clip.subject_action,
     text_on_screen |-> clip.text_on_screen,
     shot_type |-> clip.shot_type,
     function |-> dict_get(clip.clip_function, "unknown")]

\* faulty variant: the scripts are compared as written
_is_duplicate_cased(example, examples) ==
    LET script == example.script
    IN  IF script = << >> THEN FALSE
        ELSE \E i \in 1..Len(examples) : examples[i].script = script

\* _is_duplicate (lines 177-185)
_is_duplicate(example, examples) ==
    LET script == lower(example.script)
    IN  IF script = << >> THEN FALSE
        ELSE \E i \in 1..Len(examples) : lower(examples[i].script) = script

\* faulty variant: a full list still takes one more
below_cap_le(examples) == Len(examples) <= PLAYBOOK_CAP

\* len(...) < 50 (lines 109 and 116)
below_cap(examples) == Len(examples) < PLAYBOOK_CAP

\* the two nested tests and the append (lines 109-111 and 116-118)
add_example(examples, example) ==
    IF below_cap(examples) /\ ~_is_duplicate(example, examples)
    THEN Append(examples, example)
    ELSE examples

\* ScriptClipBrain(): every clip type has an empty list (lines 61-80)
NewBrain ==
    [videos_learned_from |-> 0,
     playbook |-> [ct \in ClipTypes |-> << >>],
     by_function |-> EmptyMap,
     transitions |-> EmptyMap]

\* faulty variant: the playbook list is looked up under the function
learn_from_clip_byfunction(b, clip) ==
    LET example == Example(clip)
    IN  [b EXCEPT
            !.playbook =
                MapPut(@, example.function,
                       add_example(MapGet(@, example.function, << >>),
                                   example)),
            !.by_function =
                MapPut(@, example.function,
                       add_example(MapGet(@, example.function, << >>),
                                   example))]

\* learn_from_clip (lines 82-120)
learn_from_clip(b, clip) ==
    LET example == Example(clip)
    IN  [b EXCEPT
            !.playbook =
                MapPut(@, example.clip_type,
                       add_example(MapGet(@, example.clip_type, << >>),
                                   example)),
            !.by_function =
                MapPut(@, example.function,
                       add_example(MapGet(@, example.function, << >>),
                                   example))]

\* faulty variant: the key names the second clip's type first
transition_key_reversed(type1, type2) == <<type2, type1>>

\* f"{type1} -> {type2}" (line 132): the pair stands for the joined text
transition_key(type1, type2) == <<type1, type2>>

\* the example learn_transition stores (lines 138-143)
TransitionExample(clip1, clip2) ==
    [from_script |-> clip1.script_segment,
     from_function |-> dict_get(clip1.clip_function, ""),
     to_script |-> clip2.script_segment,
     to_function |-> dict_get(clip2.clip_function, "")]

\* learn_transition (lines 122-143)
learn_transition(b, clip1, clip2) ==
    LET type1 == _determine_clip_type(clip1)
        type2 == _determine_clip_type(clip2)
        key == transition_key(type1, type2)
        examples == MapGet(b.transitions, key, << >>)
    IN  [b EXCEPT
            !.transitions =
                MapPut(@, key,
                       IF Len(examples) < TRANSITION_CAP
                       THEN Append(examples, TransitionExample(clip1, clip2))
                       ELSE examples)]

\* faulty variant: the last clip is paired with the first as well
transition_calls_wrapping(clips) ==
    [i \in 1..Len(clips) |-> <<clips[i], clips[(i % Len(clips)) + 1]>>]

\* the learn_transition calls of learn_sequence, in call order:
\* for i in range(len(clips) - 1): (clips[i], clips[i + 1])
transition_calls(clips) ==
    [i \in 1..(Len(clips) - 1) |-> <<clips[i], clips[i + 1]>>]

RECURSIVE learn_transitions(_, _)
learn_transitions(b, calls) ==
    IF calls = << >> THEN b
    ELSE learn_transitions(learn_transition(b, calls[1][1], calls[1][2]),
                           Tail(calls))

\* learn_sequence (lines 145-148)
learn_sequence(b, clips) == learn_transitions(b, transition_calls(clips))

RECURSIVE learn_clips(_, _)
learn_clips(b, clips) ==
    IF clips = << >> THEN b
    ELSE learn_clips(learn_from_clip(b, clips[1]), Tail(clips))

(***************************************************************************)
(* Playbook harness: learn_from_clip, learn_transition and learn_sequence  *)
(* applied to drawn clips, starting from ScriptClipBrain() and from the    *)
(* brain an earlier session left behind                                    *)
(***************************************************************************)
\* a person speaking the given script
Talking(script, func) ==
    [BlankClipOntology EXCEPT
        !.subject_type = "person",
        !.subject_action = "speaking",
        !.script_segment = script,
        !.clip_function = func]

\* the k-th clip of the earlier session, its script "a01", "a02", ...
PrefillClip(k) == Talking(<<97, 48 + (k \div 10), 48 + (k % 10)>>, "hook")

\* what ScriptClipBrain.load returns after a session that learned one video
\* of talking-head hooks with numbered scripts
PrefilledBrain ==
    LET examples == [k \in 1..PrefillExamples |-> Example(PrefillClip(k))]
    IN  [videos_learned_from |-> 1,
         playbook |-> [ct \in ClipTypes |->
                          IF ct = "talking_head" THEN examples ELSE << >>],
         by_function |-> MapPut(EmptyMap, "hook", examples),
         transitions |->
             MapPut(EmptyMap, transition_key("talking_head", "talking_head"),
                    [k \in 1..PrefillTransitions |->
                        TransitionExample(PrefillClip(k), PrefillClip(k + 1))])]

BrollClip ==
    [BlankClipOntology EXCEPT
        !.subject_type = "b_roll",
        !.script_segment = Script.Buy,
        !.clip_function = "hook"]

\* the clips learn_from_clip is given: one script in three spellings, two
\* other scripts, empty and blank scripts, a speaker holding a product,
\* capitalised attributes with no function, and the first script again
\* under another clip type
PlaybookClips ==
    { Talking(Script.Buy, "hook"),
      Talking(Script.buy, "hook"),
      Talking(Script.BUY, "hook"),
      Talking(Script.Hi, "hook"),
      Talking(Script.Go, "hook"),
      Talking(<< >>, "hook"),
      Talking(Script.blank, "hook"),
      [Talking(Script.Buy, "cta") EXCEPT
          !.subject_description = "woman holding product"],
      [Talking(Script.Hi, "<absent>") EXCEPT
          !.subject_type = "Person", !.subject_action = "Speaking"],
      BrollClip }

\* the clips learn_transition is given: two talking heads with different
\* scripts and a b-roll clip
SequenceClips ==
    { Talking(Script.Buy, "hook"), Talking(Script.Hi, "cta"), BrollClip }

\* the clip lists learn_sequence is given: none to three clips, of one
\* clip type and of two
SequenceLists ==
    { << >>,
      <<Talking(Script.Buy, "hook")>>,
      <<Talking(Script.Buy, "hook"), Talking(Script.Buy, "hook")>>,
      <<Talking(Script.Buy, "hook"), BrollClip>>,
      <<Talking(Script.Buy, "hook"), Talking(Script.Hi, "cta"), BrollClip>>,
      <<Talking(Script.Hi, "cta"), Talking(Script.Buy, "hook"),
        Talking(Script.Hi, "cta")>> }

NoCall == [op |-> "none", clips |-> << >>, calls |-> << >>, result |-> ""]

PlaybookInit ==
    /\ brain \in {NewBrain, PrefilledBrain}
    /\ pb_last = NoCall
    /\ pb_n = 0

\* one call of _determine_clip_type on drawn attributes, before any learning
PbClassify ==
    /\ pb_last = NoCall
    /\ \E subject \in {"product", "text_screen", "graphic", "person",
                         "Person", "b_roll", "animal", ""},
          setting \in {"screen_recording", "desktop screen_recording",
                       "home", ""},
          action \in {"speaking", "Speaking", "demonstrating", "walking", ""},
          desc \in {"", "woman holding product", "New Product",
                    "happy customer", "a testimonial", "man at desk"} :
          LET clip == [BlankClipOntology EXCEPT
                          !.subject_type = subject,
                          !.setting_type = setting,
                          !.subject_action = action,
                          !.subject_description = desc]
          IN  pb_last' = [op |-> "classify", clips |-> <<clip>>,
                          calls |-> << >>,
                          result |-> _determine_clip_type(clip)]
    /\ UNCHANGED <<brain, pb_n>>
    /\ UNCHANGED nonPlaybookVars

\* one call of learn_from_clip
PbLearn ==
    /\ pb_n < MaxLearns
    /\ \E clip \in PlaybookClips :
          /\ brain' = learn_from_clip(brain, clip)
          /\ pb_last' = [op |-> "learn", clips |-> <<clip>>,
                         calls |-> << >>, result |-> ""]
    /\ pb_n' = pb_n + 1
    /\ UNCHANGED nonPlaybookVars

\* one call of learn_transition
PbLearnTransition ==
    /\ pb_n < MaxLearns
    /\ \E clip1 \in SequenceClips, clip2 \in SequenceClips :
          /\ brain' = learn_transition(brain, clip1, clip2)
          /\ pb_last' = [op |-> "transition", clips |-> <<clip1, clip2>>,
                         calls |-> <<<<clip1, clip2>>>>, result |-> ""]
    /\ pb_n' = pb_n + 1
    /\ UNCHANGED nonPlaybookVars

\* one call of learn_sequence
PbLearnSequence ==
    /\ pb_n < MaxLearns
    /\ \E clips \in SequenceLists :
          /\ brain' = learn_sequence(brain, clips)
          /\ pb_last' = [op |-> "sequence", clips |-> clips,
                         calls |-> transition_calls(clips), result |-> ""]
    /\ pb_n' = pb_n + 1
    /\ UNCHANGED nonPlaybookVars

PlaybookNext ==
    \/ PbClassify
    \/ PbLearn
    \/ PbLearnTransition
    \/ PbLearnSequence

(***************************************************************************)
(* Pipeline: inputs                                                        *)
(***************************************************************************)
\* video_index of the videos of a run: enumerate(videos, 1), line 652
Videos == {1, 2}

\* source durations (seconds) of the video given to process_video:
\* one short chunk, two full chunks, two full chunks and a remainder
SingleDurations == {15, 80, 95}

\* source durations of the videos of a batch directory: the first file is
\* short or two chunks long, the second is short
BatchDurations(v) == IF v = 1 THEN {15, 80} ELSE {15}

\* ParallelVideoProcessor(max_workers=...): the default 4, and a pool
\* smaller than the number of chunks
SingleWorkerBounds == {2, 4}

\* process_directory_parallel(max_video_workers=...): the default 3, and 1
VideoWorkerBounds == {1, 3}

ChunkIdx(v) == 1..Len(chunks[v])

\* faulty variant: a worker that is stuck in its call gives its thread back
Busy_running(v) == { i \in ChunkIdx(v) : wstate[v][i] = "running" }

\* the threads of the video's pool that are taken
Busy(v) == { i \in ChunkIdx(v) : wstate[v][i] \in {"running", "blocked"} }

\* faulty variant: the dispatcher goes on as soon as one result is in
AllCollectedAny(v) ==
    /\ vpc[v] = "dispatch"
    /\ \E i \in ChunkIdx(v) : wstate[v][i] = "collected"

\* the as_completed loop has yielded every future and the pool's with-block
\* has been left (lines 306-333, 463-488)
AllCollected(v) ==
    /\ vpc[v] = "dispatch"
    /\ \A i \in ChunkIdx(v) : wstate[v][i] = "collected"

\* faulty variant: once a collected result has failed, later results come back cancelled
CollectedResultCancelling(v, i) ==
    IF \E k \in 1..Len(chunk_results[v]) : ~chunk_results[v][k].success
    THEN ChunkResult(chunks[v][i].chunk_index, chunks[v][i].start_offset,
                     << >>, << >>, FALSE, "cancelled")
    ELSE future[v][i]

\* result = future.result(), lines 322 and 477
CollectedResult(v, i) == future[v][i]

NoVideoResult ==
    [video |-> 0, success |-> FALSE, error |-> "", clips_count |-> 0, clips |-> << >>,
     chunks_total |-> 0, chunks_successful |-> 0, returned |-> FALSE]

\* faulty variant: every result is counted as successful
SuccessfulCountAll(rs) == Len(rs)

\* sum(1 for r in chunk_results if r.success), lines 355 and 574
SuccessfulCount(rs) == Cardinality({ k \in 1..Len(rs) : rs[k].success })

(***************************************************************************)
(* Pipeline: initial states                                                *)
(***************************************************************************)
PipelineInit ==
    /\ mode \in {"single", "batch"}
    /\ max_workers \in IF mode = "single" THEN SingleWorkerBounds
                                            ELSE {STANDALONE_CHUNK_WORKERS}
    /\ max_video_workers \in IF mode = "single" THEN {0} ELSE VideoWorkerBounds
    /\ mpc = IF mode = "single" THEN "split" ELSE "wait"
    /\ vpc = [v \in Videos |-> IF mode = "batch" THEN "submitted"
                                ELSE IF v = 1 THEN "new" ELSE "absent"]
    /\ video_T = [v \in Videos |-> 0]
    /\ chunks = [v \in Videos |-> << >>]
    /\ wstate = [v \in Videos |-> << >>]
    /\ response = [v \in Videos |-> << >>]
    /\ future = [v \in Videos |-> << >>]
    /\ chunk_results = [v \in Videos |-> << >>]
    /\ video_clips = [v \in Videos |-> << >>]
    /\ video_transcript = [v \in Videos |-> << >>]
    /\ video_result = [v \in Videos |-> NoVideoResult]
    /\ all_results = << >>
    /\ agg_i = 0
    /\ ontology_file \in {NoFile, FileOf(PriorOntology)}
    \* single: the constructor loads or creates it (lines 264-271);
    \* batch: it is loaded only when aggregation starts (lines 675-679)
    /\ master_ontology = IF mode = "single" THEN load_binary(ontology_file)
                                             ELSE EmptyOntology
    /\ merge_log = << >>

(***************************************************************************)
(* Dispatcher and workers (both modes)                                     *)
(***************************************************************************)
\* the chunk futures right after the submit loop: all queued
Submitted(v, cs) ==
    /\ chunks' = [chunks EXCEPT ![v] = cs]
    /\ wstate' = [wstate EXCEPT ![v] = [i \in 1..Len(cs) |-> "queued"]]
    /\ response' = [response EXCEPT ![v] = [i \in 1..Len(cs) |-> NoResponse]]
    /\ future' = [future EXCEPT ![v] = [i \in 1..Len(cs) |-> NoResult]]

\* a free pool thread takes the oldest queued work item
StartChunk(v, i) ==
    /\ vpc[v] = "dispatch"
    /\ i \in ChunkIdx(v)
    /\ wstate[v][i] = "queued"
    /\ \A j \in 1..(i - 1) : wstate[v][j] # "queued"
    /\ Cardinality(Busy(v)) < max_workers
    /\ wstate' = [wstate EXCEPT ![v][i] = "running"]
    /\ UNCHANGED <<nonPipelineVars, mode, max_workers, max_video_workers, mpc, vpc, video_T,
                   chunks, response, future, chunk_results, video_clips,
                   video_transcript, video_result, all_results, agg_i,
                   master_ontology, ontology_file, merge_log>>

\* the service call comes back (with clips, or an error) and
\* process_single_chunk returns its ChunkResult
WorkerReturn(v, i) ==
    /\ vpc[v] = "dispatch"
    /\ i \in ChunkIdx(v)
    /\ wstate[v][i] = "running"
    /\ \E resp \in Responses(chunks[v][i].chunk_index) :
          /\ response' = [response EXCEPT ![v][i] = resp]
          /\ future' = [future EXCEPT ![v][i] = process_single_chunk(chunks[v][i], resp)]
    /\ wstate' = [wstate EXCEPT ![v][i] = "returned"]
    /\ UNCHANGED <<nonPipelineVars, mode, max_workers, max_video_workers, mpc, vpc, video_T,
                   chunks, chunk_results, video_clips, video_transcript,
                   video_result, all_results, agg_i, master_ontology,
                   ontology_file, merge_log>>

\* the service never answers: generate_content_stream (lines 231-242 of
\* iterative_analyzer.py) is called without any timeout, the worker stays in it
CallNeverReturns(v, i) ==
    /\ vpc[v] = "dispatch"
    /\ i \in ChunkIdx(v)
    /\ wstate[v][i] = "running"
    /\ wstate' = [wstate EXCEPT ![v][i] = "blocked"]
    /\ UNCHANGED <<nonPipelineVars, mode, max_workers, max_video_workers, mpc, vpc, video_T,
                   chunks, response, future, chunk_results, video_clips,
                   video_transcript, video_result, all_results, agg_i,
                   master_ontology, ontology_file, merge_log>>

\* as_completed yields a finished future; its result is appended
Collect(v, i) ==
    /\ vpc[v] = "dispatch"
    /\ i \in ChunkIdx(v)
    /\ wstate[v][i] = "returned"
    /\ chunk_results' = [chunk_results EXCEPT ![v] = Append(@, CollectedResult(v, i))]
    /\ wstate' = [wstate EXCEPT ![v][i] = "collected"]
    /\ UNCHANGED <<nonPipelineVars, mode, max_workers, max_video_workers, mpc, vpc, video_T,
                   chunks, response, future, video_clips, video_transcript,
                   video_result, all_results, agg_i, master_ontology,
                   ontology_file, merge_log>>

(***************************************************************************)
(* Single video: ParallelVideoProcessor.process_video                      *)
(***************************************************************************)
\* lines 294-316: split, then submit every chunk
SingleSplit ==
    /\ mode = "single"
    /\ mpc = "split"
    /\ \E T \in SingleDurations :
          /\ video_T' = [video_T EXCEPT ![1] = T]
          /\ Submitted(1, split_video_into_chunks(T, CHUNK_DURATION))
    /\ vpc' = [vpc EXCEPT ![1] = "dispatch"]
    /\ mpc' = "dispatch"
    /\ UNCHANGED <<nonPipelineVars, mode, max_workers, max_video_workers, chunk_results,
                   video_clips, video_transcript, video_result, all_results,
                   agg_i, master_ontology, ontology_file, merge_log>>

\* str(e) of what get_video_duration (line 60) raises, and of the
\* CalledProcessError of the re-encoding subprocess.run (line 116)
ProbeError == "Could not get video duration"
ChunkExtractionError == "ffmpeg returned non-zero exit status"
VideoErrors == {ProbeError, ChunkExtractionError}

\* lines 294-300: get_video_duration or the re-encoding extraction of a chunk
\* raises inside split_video_into_chunks; nothing catches it, process_video
\* raises it to its caller (no result dict is returned)
SingleSplitRaises ==
    /\ mode = "single"
    /\ mpc = "split"
    /\ \E e \in VideoErrors :
          video_result' = [video_result EXCEPT ![1] =
              [video |-> 1, success |-> FALSE, error |-> e, clips_count |-> 0,
               clips |-> << >>, chunks_total |-> 0, chunks_successful |-> 0,
               returned |-> FALSE]]
    /\ mpc' = "raised"
    /\ vpc' = [vpc EXCEPT ![1] = "raised"]
    /\ UNCHANGED <<nonPipelineVars, mode, max_workers, max_video_workers, video_T, chunks,
                   wstate, response, future, chunk_results, video_clips,
                   video_transcript, all_results, agg_i,
                   master_ontology, ontology_file, merge_log>>

\* lines 335-374: assemble_results (sort, collect, renumber and merge),
\* videos_analyzed += 1, save, return
FinishVideo ==
    /\ mode = "single"
    /\ mpc = "dispatch"
    /\ AllCollected(1)
    /\ LET sorted_results == sorted_by_chunk_index(chunk_results[1])
           all_clips == renumber(collect_clips(sorted_results))
           merged == merge_clips(master_ontology, all_clips)
           counted == [merged EXCEPT !.videos_analyzed = @ + 1]
       IN  /\ video_clips' = [video_clips EXCEPT ![1] = all_clips]
           /\ video_transcript' = [video_transcript EXCEPT ![1] =
                                      join(transcript_parts(sorted_results))]
           /\ merge_log' = merge_log \o merge_calls(1, all_clips)
           /\ master_ontology' = counted
           /\ ontology_file' = FileOf(counted)
           /\ video_result' = [video_result EXCEPT ![1] =
                 [video |-> 1, success |-> TRUE, error |-> "",
                  clips_count |-> Len(all_clips), clips |-> all_clips,
                  chunks_total |-> Len(chunks[1]),
                  chunks_successful |-> SuccessfulCount(chunk_results[1]),
                  returned |-> TRUE]]
    /\ vpc' = [vpc EXCEPT ![1] = "done"]
    /\ mpc' = "done"
    /\ UNCHANGED <<nonPipelineVars, mode, max_workers, max_video_workers, video_T, chunks,
                   wstate, response, future, chunk_results, all_results, agg_i>>


(***************************************************************************)
(* Batch: process_directory_parallel and process_single_video_standalone   *)
(***************************************************************************)
RunningVideos == { v \in Videos : vpc[v] = "dispatch" }

\* a free thread of the outer pool takes the oldest submitted video
CanStartVideo(v) ==
    /\ mode = "batch"
    /\ vpc[v] = "submitted"
    /\ \A u \in Videos : u < v => vpc[u] # "submitted"
    /\ Cardinality(RunningVideos) < max_video_workers

\* lines 449-472: probe, split, submit every chunk to the video's own pool
StartVideo(v) ==
    /\ CanStartVideo(v)
    /\ \E T \in BatchDurations(v) :
          /\ video_T' = [video_T EXCEPT ![v] = T]
          /\ Submitted(v, split_video_into_chunks(T, CHUNK_DURATION))
    /\ vpc' = [vpc EXCEPT ![v] = "dispatch"]
    /\ UNCHANGED <<nonPipelineVars, mode, max_workers, max_video_workers, mpc, chunk_results,
                   video_clips, video_transcript, video_result, all_results,
                   agg_i, master_ontology, ontology_file, merge_log>>

\* lines 592-602: any exception of the video's task becomes a failed result
StartVideoFails(v) ==
    /\ CanStartVideo(v)
    /\ \E e \in VideoErrors :
          video_result' = [video_result EXCEPT ![v] =
              [video |-> v, success |-> FALSE, error |-> e, clips_count |-> 0,
               clips |-> << >>, chunks_total |-> 0, chunks_successful |-> 0,
               returned |-> TRUE]]
    /\ vpc' = [vpc EXCEPT ![v] = "returned"]
    /\ UNCHANGED <<nonPipelineVars, mode, max_workers, max_video_workers, mpc, video_T, chunks,
                   wstate, response, future, chunk_results, video_clips,
                   video_transcript, all_results, agg_i, master_ontology,
                   ontology_file, merge_log>>

\* lines 490-587: sort, collect, renumber, join, return the result dict
AssembleStandalone(v) ==
    /\ mode = "batch"
    /\ AllCollected(v)
    /\ LET sorted_results == sorted_by_chunk_index(chunk_results[v])
           all_clips == renumber(collect_clips(sorted_results))
       IN  /\ video_clips' = [video_clips EXCEPT ![v] = all_clips]
           /\ video_transcript' = [video_transcript EXCEPT ![v] =
                                    join(transcript_parts_standalone(sorted_results))]
           /\ video_result' = [video_result EXCEPT ![v] =
                 [video |-> v, success |-> TRUE, error |-> "",
                  clips_count |-> Len(all_clips), clips |-> all_clips,
                  chunks_total |-> Len(chunks[v]),
                  chunks_successful |-> SuccessfulCount(chunk_results[v]),
                  returned |-> TRUE]]
    /\ vpc' = [vpc EXCEPT ![v] = "returned"]
    /\ UNCHANGED <<nonPipelineVars, mode, max_workers, max_video_workers, mpc, video_T, chunks,
                   wstate, response, future, chunk_results, all_results, agg_i,
                   master_ontology, ontology_file, merge_log>>

\* lines 655-659: as_completed yields a finished video, its dict is appended
CollectVideo(v) ==
    /\ mode = "batch"
    /\ mpc = "wait"
    /\ vpc[v] = "returned"
    /\ all_results' = Append(all_results, video_result[v])
    /\ vpc' = [vpc EXCEPT ![v] = "collected"]
    /\ UNCHANGED <<nonPipelineVars, mode, max_workers, max_video_workers, mpc, video_T, chunks,
                   wstate, response, future, chunk_results, video_clips,
                   video_transcript, video_result, agg_i, master_ontology,
                   ontology_file, merge_log>>

\* faulty variant: aggregation starts when the first video has been collected
AllVideosCollectedAny == \E v \in Videos : vpc[v] = "collected"

\* the outer with-block has been left: every video's future was yielded
AllVideosCollected == \A v \in Videos : vpc[v] = "collected"

\* lines 675-682: load or create the ontology
LoadOntology ==
    /\ mode = "batch"
    /\ mpc = "wait"
    /\ AllVideosCollected
    /\ master_ontology' = load_binary(ontology_file)
    /\ mpc' = "aggregate"
    /\ UNCHANGED <<nonPipelineVars, mode, max_workers, max_video_workers, vpc, video_T, chunks,
                   wstate, response, future, chunk_results, video_clips,
                   video_transcript, video_result, all_results, agg_i,
                   ontology_file, merge_log>>

\* faulty variant: a failed video is aggregated like a successful one
result_get_success_always(result) == TRUE

\* if result.get('success'), line 685
result_get_success(result) == result.success

\* one iteration of the loop of lines 684-693
MergeResult ==
    /\ mode = "batch"
    /\ mpc = "aggregate"
    /\ agg_i < Len(all_results)
    /\ LET result == all_results[agg_i + 1]
       IN  IF result_get_success(result)
           THEN /\ master_ontology' =
                      [merge_clips(master_ontology, result.clips)
                          EXCEPT !.videos_analyzed = @ + 1]
                /\ merge_log' = merge_log \o merge_calls(result.video, result.clips)
           ELSE UNCHANGED <<master_ontology, merge_log>>
    /\ agg_i' = agg_i + 1
    /\ UNCHANGED <<nonPipelineVars, mode, max_workers, max_video_workers, mpc, vpc, video_T,
                   chunks, wstate, response, future, chunk_results, video_clips,
                   video_transcript, video_result, all_results, ontology_file>>

\* lines 695-698: the ontology is written once, after the loop
SaveOntology ==
    /\ mode = "batch"
    /\ mpc = "aggregate"
    /\ agg_i = Len(all_results)
    /\ ontology_file' = FileOf(master_ontology)
    /\ mpc' = "done"
    /\ UNCHANGED <<nonPipelineVars, mode, max_workers, max_video_workers, vpc, video_T, chunks,
                   wstate, response, future, chunk_results, video_clips,
                   video_transcript, video_result, all_results, agg_i,
                   master_ontology, merge_log>>

(***************************************************************************)
(* Iterative path: batch_processor.process_directory, which runs           *)
(* IterativeClipAnalyzer.process_video on one video after the other        *)
(***************************************************************************)
\* find_videos (batch_processor.py lines 41-56): the files of the
\* directory, sorted
find_videos == [i \in 1..Cardinality(Videos) |-> i]

\* processing_log.json before the first run
NoLog == [exists |-> FALSE, processed |-> << >>, failed |-> << >>]

\* load_processing_log, lines 64-75: the saved log, or a new one
load_processing_log(file) ==
    IF file.exists THEN [processed |-> file.processed, failed |-> file.failed]
    ELSE [processed |-> << >>, failed |-> << >>]

\* save_processing_log, lines 78-83
save_processing_log(l) ==
    [exists |-> TRUE, processed |-> l.processed, failed |-> l.failed]

\* faulty variant: the videos logged as failed are skipped as well
remaining_videos_skipfailed(found, l, resuming) ==
    IF resuming
    THEN SelectSeq(found,
                   LAMBDA v : /\ \A i \in 1..Len(l.processed) : l.processed[i] # v
                              /\ \A i \in 1..Len(l.failed) : l.failed[i].video # v)
    ELSE found

\* lines 140-143: with resume, the videos named in log['processed'] are
\* left out
remaining_videos(found, l, resuming) ==
    IF resuming
    THEN SelectSeq(found,
                   LAMBDA v : \A i \in 1..Len(l.processed) : l.processed[i] # v)
    ELSE found

\* the state before the first run of process_directory: the files at
\* ontology_path and brain_path are absent or left by an earlier session;
\* brain stands for the pickle at brain_path as well, which line 370
\* rewrites at every change
IterativeInit ==
    /\ mode = "iterative"
    /\ max_workers = 0
    /\ max_video_workers = 0
    /\ mpc = "shell"
    /\ vpc = [v \in Videos |-> "absent"]
    /\ video_T = [v \in Videos |-> 0]
    /\ chunks = [v \in Videos |-> << >>]
    /\ wstate = [v \in Videos |-> << >>]
    /\ response = [v \in Videos |-> <<NoResponse>>]
    /\ future = [v \in Videos |-> << >>]
    /\ chunk_results = [v \in Videos |-> << >>]
    /\ video_clips = [v \in Videos |-> << >>]
    /\ video_transcript = [v \in Videos |-> << >>]
    /\ video_result = [v \in Videos |-> NoVideoResult]
    /\ all_results = << >>
    /\ agg_i = 0
    /\ ontology_file \in {NoFile, FileOf(PriorOntology)}
    /\ master_ontology = EmptyOntology
    /\ merge_log = << >>
    /\ brain \in {NewBrain, PrefilledBrain}
    /\ pb_last = NoCall
    /\ pb_n = 0
    /\ processing_log = NoLog
    /\ log = load_processing_log(NoLog)
    /\ videos = << >>
    /\ resume = FALSE
    /\ run = 0

\* process_directory, lines 97-162: the log is loaded, the videos already
\* processed are left out and the analyzer is constructed, which loads the
\* ontology (iterative_analyzer.py lines 56-62); with nothing left the run
\* returns at line 146, and an ontology file that is no pickle ends it with
\* the error of pickle.load
StartRun ==
    /\ mode = "iterative"
    /\ mpc \in {"shell", "crashed"}
    /\ run < MaxRuns
    /\ \E resuming \in BOOLEAN :
          LET loaded == load_processing_log(processing_log)
              todo == remaining_videos(find_videos, loaded, resuming)
          IN  /\ resume' = resuming
              /\ log' = loaded
              /\ videos' = todo
              /\ vpc' = [v \in Videos |->
                            IF \E i \in 1..Len(todo) : todo[i] = v
                            THEN "queued" ELSE "skipped"]
              /\ IF todo = << >>
                 THEN mpc' = "shell" /\ UNCHANGED master_ontology
                 ELSE IF Unpicklable(ontology_file)
                 THEN mpc' = "crashed" /\ UNCHANGED master_ontology
                 ELSE /\ mpc' = "loop"
                      /\ master_ontology' = load_binary(ontology_file)
    /\ run' = run + 1
    /\ response' = [v \in Videos |-> <<NoResponse>>]
    /\ UNCHANGED <<max_workers, max_video_workers, video_T, chunks, wstate,
                   future, chunk_results, video_clips, video_transcript,
                   video_result, all_results, agg_i, ontology_file,
                   merge_log, mode, processing_log>>
    /\ UNCHANGED <<chunkerVars, ontologyVars, playbookVars, timestampVars,
                   parserVars>>

\* lines 184-194: the failure is logged and the loop goes on
log_failure(l, v, e) == [l EXCEPT !.failed = Append(@, [video |-> v, error |-> e])]

\* analyze_video (lines 187-251) for the next video of the run: the
\* analysis of the whole video is returned, without clips or with two,
\* their scripts marked with the video, or the error of line 244 leaves
\* process_video and is logged
IterativeAnalyze(v) ==
    /\ mode = "iterative"
    /\ mpc = "loop"
    /\ vpc[v] = "queued"
    /\ \A u \in Videos : u < v => vpc[u] \in {"returned", "raised", "skipped"}
    /\ \E resp \in {OkResponse(v, 0), OkResponse(v, 2),
                     ErrorResponse("Gemini API error")} :
          /\ response' = [response EXCEPT ![v] = <<resp>>]
          /\ IF resp.kind = "ok"
             THEN /\ vpc' = [vpc EXCEPT ![v] = "analyzed"]
                  /\ UNCHANGED <<log, processing_log>>
             ELSE /\ vpc' = [vpc EXCEPT ![v] = "raised"]
                  /\ log' = log_failure(log, v, resp.error)
                  /\ processing_log' = save_processing_log(log')
    /\ UNCHANGED <<mode, max_workers, max_video_workers, mpc, video_T, chunks,
                   wstate, future, chunk_results, video_clips,
                   video_transcript, video_result, all_results, agg_i,
                   master_ontology, ontology_file, merge_log>>
    /\ UNCHANGED <<chunkerVars, ontologyVars, playbookVars, timestampVars,
                   parserVars, videos, resume, run>>

\* lines 357-360: the sequence is kept when it is not empty
track_sequence(sequences, annotated_clips) ==
    LET sequence ==
            SelectSeq([n \in 1..Len(annotated_clips) |->
                          annotated_clips[n].clip_function],
                      LAMBDA f : f # "")
    IN  IF sequence # << >> THEN Append(sequences, sequence) ELSE sequences

\* update_ontology (lines 337-376): the clips are merged and fed to the
\* brain, and save (line 369) writes the text report of the ontology to
\* ontology_path
IterativeUpdate(v) ==
    /\ mode = "iterative"
    /\ mpc = "loop"
    /\ vpc[v] = "analyzed"
    /\ LET clips == response[v][1].clips
           \* lines 349-352: clip_number is read from the record; the
           \* service numbers the clips of its answer from 1
           annotated_clips ==
               [k \in 1..Len(clips) |-> AnnotatedClip(k, clips[k])]
       IN  /\ master_ontology' =
                 [merge_clips(master_ontology, annotated_clips) EXCEPT
                     !.common_sequences = track_sequence(@, annotated_clips),
                     !.videos_analyzed = @ + 1]
           /\ brain' =
                 [learn_sequence(learn_clips(brain, clips), clips) EXCEPT
                     !.videos_learned_from = @ + 1]
           /\ merge_log' = merge_log \o merge_calls(v, annotated_clips)
           /\ video_clips' = [video_clips EXCEPT ![v] = annotated_clips]
    /\ ontology_file' = TextFileOf(master_ontology')
    /\ vpc' = [vpc EXCEPT ![v] = "updated"]
    /\ UNCHANGED <<mode, max_workers, max_video_workers, mpc, video_T, chunks,
                   wstate, response, future, chunk_results,
                   video_transcript, video_result, all_results, agg_i>>
    /\ UNCHANGED <<chunkerVars, ontologyVars, pb_last, pb_n, timestampVars,
                   parserVars, batchVars>>

\* generate_output (lines 378-428) raises, as '\n'.join of line 426 does on
\* a full_transcript that is no string: process_video is left before its
\* save_binary, and the failure is logged
IterativeOutputRaises(v) ==
    /\ mode = "iterative"
    /\ mpc = "loop"
    /\ vpc[v] = "updated"
    /\ vpc' = [vpc EXCEPT ![v] = "raised"]
    /\ log' = log_failure(log, v, "TypeError")
    /\ processing_log' = save_processing_log(log')
    /\ UNCHANGED <<mode, max_workers, max_video_workers, mpc, video_T, chunks,
                   wstate, response, future, chunk_results, video_clips,
                   video_transcript, video_result, all_results, agg_i,
                   master_ontology, ontology_file, merge_log>>
    /\ UNCHANGED <<chunkerVars, ontologyVars, playbookVars, timestampVars,
                   parserVars, videos, resume, run>>

\* the rest of process_video (lines 449-477), which pickles the ontology
\* to ontology_path, and lines 171-175 of process_directory: the video is
\* logged as processed
IterativeSave(v) ==
    /\ mode = "iterative"
    /\ mpc = "loop"
    /\ vpc[v] = "updated"
    /\ ontology_file' = FileOf(master_ontology)
    /\ vpc' = [vpc EXCEPT ![v] = "returned"]
    /\ log' = [log EXCEPT !.processed = Append(@, v)]
    /\ processing_log' = save_processing_log(log')
    /\ UNCHANGED <<mode, max_workers, max_video_workers, mpc, video_T, chunks,
                   wstate, response, future, chunk_results, video_clips,
                   video_transcript, video_result, all_results, agg_i,
                   master_ontology, merge_log>>
    /\ UNCHANGED <<chunkerVars, ontologyVars, playbookVars, timestampVars,
                   parserVars, videos, resume, run>>

\* lines 196-206: after the loop show_ontology_status loads the file at
\* ontology_path when it exists
EndRun ==
    /\ mode = "iterative"
    /\ mpc = "loop"
    /\ \A v \in Videos : vpc[v] \in {"returned", "raised", "skipped"}
    /\ mpc' = IF Unpicklable(ontology_file) THEN "crashed" ELSE "shell"
    /\ UNCHANGED <<mode, max_workers, max_video_workers, vpc, video_T, chunks,
                   wstate, response, future, chunk_results, video_clips,
                   video_transcript, video_result, all_results, agg_i,
                   master_ontology, ontology_file, merge_log>>
    /\ UNCHANGED <<chunkerVars, ontologyVars, playbookVars, timestampVars,
                   parserVars, batchVars>>

IterativeNext ==
    \/ StartRun
    \/ \E v \in Videos : IterativeAnalyze(v)
    \/ \E v \in Videos : IterativeUpdate(v)
    \/ \E v \in Videos : IterativeOutputRaises(v)
    \/ \E v \in Videos : IterativeSave(v)
    \/ EndRun

(***************************************************************************)
(* Timestamp harness: add_time_offset applied to drawn timestamps and      *)
(* chunk offsets, and applied again with the offset negated                *)
(***************************************************************************)
\* the chunk-local timestamps drawn: "MM:SS.mmm" texts at the ends and in
\* the middle of each field, a text whose seconds run past 59, the empty
\* text and a text that does not parse; the offset is the start_offset of a
\* chunk: the full chunks before it
TimestampInit ==
    /\ ts_t \in { Ts(m, sec, k) : m \in {0, 1, 59}, sec \in {0, 5, 59},
                                   k \in {0, 1, 500, 999} }
                    \cup { Ts(0, 75, 0), EmptyTs, BadTs }
    /\ ts_O \in { k * CHUNK_DURATION : k \in 0..MaxOffsetChunks }
    /\ ts_pc = "call"
    /\ ts_out = EmptyTs
    /\ ts_back = EmptyTs

\* the correction process_single_chunk makes (lines 176-181)
TsCorrect ==
    /\ ts_pc = "call"
    /\ ts_out' = add_time_offset(ts_t, ts_O)
    /\ ts_pc' = "corrected"
    /\ UNCHANGED <<ts_t, ts_O, ts_back>>
    /\ UNCHANGED nonTimestampVars

\* the corrected timestamp is taken back by the same offset
TsUndo ==
    /\ ts_pc = "corrected"
    /\ ts_back' = add_time_offset(ts_out, -ts_O)
    /\ ts_pc' = "undone"
    /\ UNCHANGED <<ts_t, ts_O, ts_out>>
    /\ UNCHANGED nonTimestampVars

TimestampNext ==
    \/ TsCorrect
    \/ TsUndo

(***************************************************************************)
(* The adapter's parser: IterativeClipAnalyzer._parse_response             *)
(* (iterative_analyzer.py lines 253-287).  A response text is the sequence *)
(* of its tokens: "{", "}", "[", "]", "clip" (the fields of one record),   *)
(* "text" (prose without braces), "ws" (white space), "fence_json" (the    *)
(* opening marker of a json code block) and "fence" (three backquotes).    *)
(* The document the prompt asks for is an object holding the list of clip  *)
(* records.                                                                *)
(***************************************************************************)
RECURSIVE Records(_)
Records(n) == IF n = 0 THEN << >> ELSE Records(n - 1) \o <<"{", "clip", "}">>

\* {"clips": [ {...}, ..., {...} ]}
Document(n) == <<"{", "[">> \o Records(n) \o <<"]", "}">>

JSONDecodeError == -1

\* json.loads: the number of clip records of the document, or the error;
\* white space around the document is allowed
RECURSIVE strip_ws(_)
strip_ws(text) ==
    IF text # << >> /\ text[1] = "ws" THEN strip_ws(Tail(text))
    ELSE IF text # << >> /\ text[Len(text)] = "ws"
    THEN strip_ws(SubSeq(text, 1, Len(text) - 1))
    ELSE text

json_loads(text) ==
    LET doc == strip_ws(text)
    IN  IF doc = <<"{", "}">> THEN 0
        ELSE IF \E n \in 0..Len(doc) : doc = Document(n)
        THEN (Len(doc) - 4) \div 3
        ELSE JSONDecodeError

\* lines 257-263: the fence markers are cut off the stripped text
strip_fences(response_text) ==
    LET clean == strip_ws(response_text)
        opened == IF clean # << >> /\ clean[1] \in {"fence_json", "fence"}
                  THEN Tail(clean) ELSE clean
    IN  IF opened # << >> /\ opened[Len(opened)] = "fence"
        THEN SubSeq(opened, 1, Len(opened) - 1)
        ELSE opened

\* response_text.find of the opening brace: the first position of a brace, 0 for none
find_brace(response_text) ==
    IF \E i \in 1..Len(response_text) : response_text[i] = "{"
    THEN CHOOSE i \in 1..Len(response_text) :
             /\ response_text[i] = "{"
             /\ \A j \in 1..(i - 1) : response_text[j] # "{"
    ELSE 0

\* the loop of lines 276-286: the position at which brace_count comes back
\* to 0, or 0 when the text ends first
RECURSIVE balanced_end(_, _, _)
balanced_end(response_text, i, brace_count) ==
    IF i > Len(response_text) THEN 0
    ELSE IF response_text[i] = "{"
    THEN balanced_end(response_text, i + 1, brace_count + 1)
    ELSE IF response_text[i] = "}"
    THEN IF brace_count - 1 = 0 THEN i
         ELSE balanced_end(response_text, i + 1, brace_count - 1)
    ELSE balanced_end(response_text, i + 1, brace_count)

\* _parse_response (lines 253-287)
_parse_response(response_text) ==
    LET strict == json_loads(strip_fences(response_text))
        start == find_brace(response_text)
        end == balanced_end(response_text, start, 0)
        region == json_loads(SubSeq(response_text, start, end))
        Return(n) == [kind |-> "ok", n |-> n, error |-> ""]
        Raise(e) == [kind |-> "error", n |-> 0, error |-> e]
    IN  IF strict # JSONDecodeError THEN Return(strict)
        ELSE IF start = 0 THEN Raise("No JSON found in response")
        ELSE IF end = 0 THEN Raise("Could not parse JSON")
        ELSE IF region # JSONDecodeError THEN Return(region)
        ELSE Raise("JSON parse error")

\* what analyze_video hands to process_single_chunk for the text it
\* received for chunk c (lines 246-251)
analysis_of(c, response_text) ==
    LET parsed == _parse_response(response_text)
    IN  IF parsed.kind = "ok" THEN OkResponse(c, parsed.n)
        ELSE ErrorResponse(parsed.error)

(***************************************************************************)
(* Adapter harness: process_single_chunk on drawn response texts           *)
(***************************************************************************)
\* the response texts drawn: the document bare, padded, fenced, wrapped in
\* prose, behind prose that holds a brace pair of its own; the document cut
\* off at every position, bare and fenced; prose only; nothing; the empty
\* object; braces around prose
ResponseTexts ==
    UNION { { Document(n),
              <<"ws">> \o Document(n) \o <<"ws">>,
              <<"fence_json", "ws">> \o Document(n) \o <<"ws", "fence">>,
              <<"fence">> \o Document(n) \o <<"fence">>,
              <<"text">> \o Document(n) \o <<"text">>,
              <<"text", "fence_json">> \o Document(n) \o <<"fence">>,
              <<"text", "{", "}", "text">> \o Document(n) }
            \cup { SubSeq(Document(n), 1, j) :
                      j \in 1..(Len(Document(n)) - 1) }
            \cup { <<"fence_json">> \o SubSeq(Document(n), 1, j) :
                      j \in 1..(Len(Document(n)) - 1) }
            : n \in 0..MaxClips }
        \cup { <<"text">>, << >>, <<"{", "}">>, <<"{", "text", "}">> }

ParserInit ==
    /\ pr_raw \in ResponseTexts
    \* the first and the second chunk of a video
    /\ pr_chunk \in { VideoChunk(i, i * CHUNK_DURATION, CHUNK_DURATION) :
                         i \in {0, 1} }
    /\ pr_pc = "call"
    /\ pr_result = NoResult

\* the stream delivers the text; process_single_chunk returns
AdapterParses ==
    /\ pr_pc = "call"
    /\ pr_result' = process_single_chunk(
                        pr_chunk, analysis_of(pr_chunk.chunk_index, pr_raw))
    /\ pr_pc' = "parsed"
    /\ UNCHANGED <<pr_raw, pr_chunk>>
    /\ UNCHANGED nonParserVars

\* the stream breaks (lines 231-244); process_single_chunk returns
AdapterApiError ==
    /\ pr_pc = "call"
    /\ pr_result' = process_single_chunk(pr_chunk,
                                         ErrorResponse("Gemini API error"))
    /\ pr_pc' = "api_error"
    /\ UNCHANGED <<pr_raw, pr_chunk>>
    /\ UNCHANGED nonParserVars

ParserNext ==
    \/ AdapterParses
    \/ AdapterApiError

(***************************************************************************)
(* Specifications                                                          *)
(***************************************************************************)
\* the variables of the parts that take no part in a run are at rest; active
\* names the parts whose initial state is given elsewhere
Resting(active) ==
    /\ IF "chunker" \in active THEN TRUE
       ELSE /\ ck_T = 0
            /\ ck_D = 0
            /\ ck_pc = "idle"
            /\ ck_chunks = << >>
    /\ IF "pipeline" \in active THEN TRUE
       ELSE /\ mode = "idle"
            /\ max_workers = 0
            /\ max_video_workers = 0
            /\ mpc = "idle"
            /\ vpc = [v \in Videos |-> "absent"]
            /\ video_T = [v \in Videos |-> 0]
            /\ chunks = [v \in Videos |-> << >>]
            /\ wstate = [v \in Videos |-> << >>]
            /\ response = [v \in Videos |-> << >>]
            /\ future = [v \in Videos |-> << >>]
            /\ chunk_results = [v \in Videos |-> << >>]
            /\ video_clips = [v \in Videos |-> << >>]
            /\ video_transcript = [v \in Videos |-> << >>]
            /\ video_result = [v \in Videos |-> NoVideoResult]
            /\ all_results = << >>
            /\ agg_i = 0
            /\ master_ontology = EmptyOntology
            /\ ontology_file = NoFile
            /\ merge_log = << >>
    /\ IF "ontology" \in active THEN TRUE
       ELSE /\ ont = EmptyOntology
            /\ ont_clips = << >>
            /\ ont_report = NoReport
    /\ IF "playbook" \in active THEN TRUE
       ELSE /\ brain = NewBrain
            /\ pb_last = NoCall
            /\ pb_n = 0
    /\ IF "timestamp" \in active THEN TRUE
       ELSE /\ ts_t = EmptyTs
            /\ ts_O = 0
            /\ ts_pc = "idle"
            /\ ts_out = EmptyTs
            /\ ts_back = EmptyTs
    /\ IF "adapter" \in active THEN TRUE
       ELSE /\ pr_raw = << >>
            /\ pr_chunk = VideoChunk(0, 0, 0)
            /\ pr_pc = "idle"
            /\ pr_result = NoResult
    /\ IF "batch" \in active THEN TRUE
       ELSE /\ processing_log = NoLog
            /\ log = load_processing_log(NoLog)
            /\ videos = << >>
            /\ resume = FALSE
            /\ run = 0

Init == PipelineInit /\ Resting({"pipeline"})

\* the steps of the dispatcher and the workers of video v
DispatchStep(v) ==
    \E i \in 1..Len(chunks[v]) :
        \/ StartChunk(v, i)
        \/ WorkerReturn(v, i)
        \/ CallNeverReturns(v, i)
        \/ Collect(v, i)

Next ==
    \/ \E v \in Videos : \E i \in 1..Len(chunks[v]) : StartChunk(v, i)
    \/ \E v \in Videos : \E i \in 1..Len(chunks[v]) : WorkerReturn(v, i)
    \/ \E v \in Videos : \E i \in 1..Len(chunks[v]) : CallNeverReturns(v, i)
    \/ \E v \in Videos : \E i \in 1..Len(chunks[v]) : Collect(v, i)
    \/ SingleSplit
    \/ SingleSplitRaises
    \/ FinishVideo
    \/ \E v \in Videos : StartVideo(v)
    \/ \E v \in Videos : StartVideoFails(v)
    \/ \E v \in Videos : AssembleStandalone(v)
    \/ \E v \in Videos : CollectVideo(v)
    \/ LoadOntology
    \/ MergeResult
    \/ SaveOntology

Spec == Init /\ [][Next]_vars

ChunkerSpecInit == ChunkerInit /\ Resting({"chunker"})

ChunkerSpec == ChunkerSpecInit /\ [][ChunkerNext]_vars

OntologySpecInit == OntologyInit /\ Resting({"ontology"})

OntologySpec == OntologySpecInit /\ [][OntologyNext]_vars

PlaybookSpecInit == PlaybookInit /\ Resting({"playbook"})

PlaybookSpec == PlaybookSpecInit /\ [][PlaybookNext]_vars

TimestampSpecInit == TimestampInit /\ Resting({"timestamp"})

TimestampSpec == TimestampSpecInit /\ [][TimestampNext]_vars

ParserSpecInit == ParserInit /\ Resting({"adapter"})

ParserSpec == ParserSpecInit /\ [][ParserNext]_vars

IterativeSpecInit ==
    IterativeInit /\ Resting({"pipeline", "playbook", "batch"})

IterativeSpec == IterativeSpecInit /\ [][IterativeNext]_vars


(***************************************************************************)
(* Properties                                                              *)
(***************************************************************************)
\* the dispatcher of video v has returned (its pool's with-block was left)
Dispatched(v) == vpc[v] \in {"done", "returned", "collected"}

\* video v went through dispatch and assembly
Assembled(v) == Dispatched(v) /\ video_result[v].success

SomeFailed(v) == \E i \in ChunkIdx(v) : response[v][i].kind = "error"

\* the results of v were collected in another order than the chunk order
OutOfOrder(v) ==
    \E k \in 1..(Len(chunk_results[v]) - 1) :
        chunk_results[v][k].chunk_index > chunk_results[v][k + 1].chunk_index

\* C1: when the dispatcher of a video has returned, every chunk of the video
\* has completed and been collected, and the collected results hold exactly
\* one ChunkResult per dispatched chunk: the chunk_index values of the
\* results are those of the dispatched chunks, none twice, none missing.
C1_OneResultPerChunk ==
    \A v \in Videos :
        Dispatched(v) =>
            /\ \A i \in ChunkIdx(v) : wstate[v][i] = "collected"
            /\ Len(chunk_results[v]) = Len(chunks[v])
            /\ { chunk_results[v][k].chunk_index : k \in 1..Len(chunk_results[v]) }
                  = { chunks[v][i].chunk_index : i \in ChunkIdx(v) }
            /\ \A k, l \in 1..Len(chunk_results[v]) :
                  k # l => chunk_results[v][k].chunk_index
                              # chunk_results[v][l].chunk_index

\* a three-chunk video whose dispatcher returned with failed and successful
\* chunks, collected out of chunk order
C1_Witness ==
    /\ Dispatched(1)
    /\ Len(chunks[1]) = 3
    /\ SomeFailed(1)
    /\ \E i \in ChunkIdx(1) : response[1][i].kind = "ok"
    /\ OutOfOrder(1)

\* C2: failure isolation.  Every collected ChunkResult of chunk j is the
\* value process_single_chunk gives for chunk j and the service's answer to
\* chunk j alone, whatever the siblings' outcomes (so it is what it would be
\* had a failed sibling succeeded); a failed sibling neither keeps a queued
\* chunk from starting when it is next in line and a pool thread is free,
\* nor a running call from returning; and when the dispatcher has returned
\* every chunk has been invoked.
C2_FailureIsolation ==
    \A v \in Videos :
        /\ \A k \in 1..Len(chunk_results[v]) :
              LET r == chunk_results[v][k]
                  i == r.chunk_index + 1
              IN  /\ i \in ChunkIdx(v)
                  /\ response[v][i].kind # "none"
                  /\ r = process_single_chunk(chunks[v][i], response[v][i])
        /\ \A j \in ChunkIdx(v) :
              /\ (vpc[v] = "dispatch" /\ wstate[v][j] = "running")
                    => ENABLED WorkerReturn(v, j)
              /\ (/\ vpc[v] = "dispatch"
                  /\ wstate[v][j] = "queued"
                  /\ \A h \in 1..(j - 1) : wstate[v][h] # "queued"
                  /\ Cardinality(Busy(v)) < max_workers)
                    => ENABLED StartChunk(v, j)
        /\ Dispatched(v) => \A j \in ChunkIdx(v) : response[v][j].kind # "none"

\* a failed chunk was collected first, and a sibling collected after it
\* succeeded with clips
C2_Witness ==
    \E v \in Videos :
        /\ Dispatched(v)
        /\ Len(chunk_results[v]) >= 2
        /\ ~chunk_results[v][1].success
        /\ \E k \in 2..Len(chunk_results[v]) :
              /\ chunk_results[v][k].success
              /\ Len(chunk_results[v][k].clips) >= 1

\* C3: the dispatcher never blocks indefinitely: while a video is being
\* dispatched either all its chunks are collected or some step of its
\* workers or its collection loop can be taken (a call that never returns
\* is timed out and becomes a failure result).
C3_DispatcherNeverBlocks ==
    \A v \in Videos :
        vpc[v] = "dispatch" => (AllCollected(v) \/ ENABLED DispatchStep(v))

\* C4: the clip numbers of an assembled clip list are 1, 2, ..., len(clips)
\* in list order, however many chunks failed.
C4_DenseNumbering ==
    \A v \in Videos :
        /\ \A n \in 1..Len(video_clips[v]) : video_clips[v][n].clip_number = n
        /\ \A n \in 1..Len(video_result[v].clips) :
              video_result[v].clips[n].clip_number = n
        /\ Assembled(v) =>
              /\ video_result[v].clips = video_clips[v]
              /\ video_result[v].clips_count = Len(video_clips[v])
              /\ Len(video_clips[v]) = Len(collect_clips(sorted_by_chunk_index(chunk_results[v])))

\* an assembled video with a failed chunk between two chunks that gave clips
C4_Witness ==
    /\ Assembled(1)
    /\ Len(chunks[1]) = 3
    /\ response[1][1].kind = "ok"
    /\ response[1][2].kind = "error"
    /\ response[1][3].kind = "ok"
    /\ Len(video_clips[1]) >= 3


\* the list rs taken in the order p
Permuted(rs, p) == [k \in 1..Len(rs) |-> rs[p[k]]]

\* the clip list and the transcript the assembler of video v's path makes
\* of the results rs
AssembledClips(rs) == renumber(collect_clips(sorted_by_chunk_index(rs)))

AssembledTranscript(rs) ==
    IF mode = "single"
    THEN join(transcript_parts(sorted_by_chunk_index(rs)))
    ELSE join(transcript_parts_standalone(sorted_by_chunk_index(rs)))

\* the script segments the service gave for the successful chunks of v,
\* by chunk index and then by position inside the chunk
SegmentsInChunkOrder(v) ==
    Flatten([i \in 1..Len(chunks[v]) |->
               IF response[v][i].kind = "ok"
               THEN [k \in 1..Len(response[v][i].clips) |->
                        response[v][i].clips[k].script_segment]
               ELSE << >>])

\* C5: the assembler's output does not depend on the arrival order of the
\* results: every permutation of the collected ChunkResults gives the clip
\* list and the transcript that were produced, and the produced clips are
\* ordered by chunk_index and then by position within the chunk.
C5_ArrivalOrderInvariance ==
    \A v \in Videos :
        Assembled(v) =>
            /\ \A p \in Permutations(1..Len(chunk_results[v])) :
                  /\ AssembledClips(Permuted(chunk_results[v], p)) = video_clips[v]
                  /\ AssembledTranscript(Permuted(chunk_results[v], p))
                        = video_transcript[v]
            /\ [n \in 1..Len(video_clips[v]) |-> video_clips[v][n].script_segment]
                  = SegmentsInChunkOrder(v)

\* an assembled video whose results arrived out of chunk order, two of them
\* with clips
C5_Witness ==
    \E v \in Videos :
        /\ Assembled(v)
        /\ OutOfOrder(v)
        /\ Cardinality({ k \in 1..Len(chunk_results[v]) :
                            Len(chunk_results[v][k].clips) >= 1 }) >= 2

\* the update_from_clip calls made for video v, in call order
MergesOf(v) == SelectSeq(merge_log, LAMBDA e : e.video = v)

\* C6: within one video update_from_clip is called exactly once for every
\* clip of the assembled sequence, in increasing clip number order, so that
\* no clip of chunk j is merged before a clip of a chunk i < j, whatever
\* order the chunks completed in.
C6_MergeOncePerClipInOrder ==
    \A v \in Videos :
        LET sub == MergesOf(v)
        IN  /\ sub # << >> =>
                 /\ Len(sub) = Len(video_clips[v])
                 /\ \A n \in 1..Len(sub) :
                       /\ sub[n].clip = video_clips[v][n]
                       /\ sub[n].clip.clip_number = n
                 /\ \A a, b \in 1..Len(sub) :
                       a < b => sub[a].clip.script_segment[1]
                                   <= sub[b].clip.script_segment[1]
            /\ (mpc = "done" /\ Assembled(v)) => Len(sub) = Len(video_clips[v])

\* a finished run that merged clips of two chunks which completed in the
\* opposite order
C6_Witness ==
    \E v \in Videos :
        /\ mpc = "done"
        /\ OutOfOrder(v)
        /\ Len(MergesOf(v)) >= 3
        /\ MergesOf(v)[1].clip.script_segment[1]
              # MergesOf(v)[Len(MergesOf(v))].clip.script_segment[1]

\* no chunk future of any video is queued, running or waiting to be collected
WorkersQuiet ==
    \A v \in Videos : \A i \in ChunkIdx(v) : wstate[v][i] = "collected"

\* no video task of the outer pool is submitted, running or uncollected
VideoTasksQuiet ==
    mode = "batch" => \A v \in Videos : vpc[v] = "collected"

\* C7: single writer.  Every step that changes the Master Ontology (an
\* update_from_clip call, a videos_analyzed increment) is a step of the main
\* thread, taken when no chunk worker of any video and no video task is
\* still running: all chunk futures and all video futures were collected.
C7_SingleWriter ==
    [][ (master_ontology' # master_ontology \/ merge_log' # merge_log)
            => /\ WorkersQuiet
               /\ VideoTasksQuiet
               /\ mpc \in {"dispatch", "wait", "aggregate"}
               /\ WorkersQuiet' ]_vars

\* a batch run with two concurrent video tasks has merged clips of both videos
C7_Witness ==
    /\ mode = "batch"
    /\ max_video_workers = 3
    /\ mpc = "done"
    /\ MergesOf(1) # << >>
    /\ MergesOf(2) # << >>
    /\ master_ontology.videos_analyzed >= 2

\* C8: the chunk descriptors of every source duration T > 0 and chunk
\* duration D > 0 start at offset 0, each further offset is the previous
\* offset plus the previous duration (no gap, no overlap), offsets increase
\* strictly, and the durations sum to T.
C8_ChunkerContiguity ==
    ck_pc = "returned" =>
        /\ Len(ck_chunks) >= 1
        /\ ck_chunks[1].start_offset = 0
        /\ \A i \in 2..Len(ck_chunks) :
              /\ ck_chunks[i].start_offset
                    = ck_chunks[i - 1].start_offset + ck_chunks[i - 1].duration
              /\ ck_chunks[i].start_offset > ck_chunks[i - 1].start_offset
        /\ SumDurations(ck_chunks) = ck_T

\* three or more chunks, the last one shorter than D
C8_Witness ==
    /\ ck_pc = "returned"
    /\ Len(ck_chunks) >= 3
    /\ ck_chunks[Len(ck_chunks)].duration < ck_D

\* C9: the chunks carry the indices 0 .. n-1 in order, every chunk but the
\* last has duration D, the last has T - (n-1)*D, and no chunk has duration
\* 0 (no trailing empty chunk when T is a multiple of D).
C9_ChunkIndicesAndDurations ==
    ck_pc = "returned" =>
        LET n == Len(ck_chunks)
        IN  /\ \A i \in 1..n :
                  /\ ck_chunks[i].chunk_index = i - 1
                  /\ ck_chunks[i].duration > 0
                  /\ i < n => ck_chunks[i].duration = ck_D
            /\ n >= 1
            /\ ck_chunks[n].duration = ck_T - (n - 1) * ck_D
            /\ ck_chunks[n].duration <= ck_D

\* T is a multiple of D and gives several chunks
C9_Witness ==
    /\ ck_pc = "returned"
    /\ ck_T % ck_D = 0
    /\ Len(ck_chunks) >= 2

\* the end-to-end scenario: 95 s split at 40 s, the chunk at offset 40
\* failed, the two others returned two clips each
Scenario95 ==
    /\ mode = "single"
    /\ mpc = "done"
    /\ video_T[1] = 95
    /\ response[1][1] = OkResponse(0, 2)
    /\ response[1][2].kind = "error"
    /\ response[1][3] = OkResponse(2, 2)

\* the text of the chunk-local timestamp ts moved by off seconds
Shifted(ts, off) == TsOfMs(TsValueMs(ts) + off * 1000)

\* clip n of the output is the k-th clip of the answer for position i,
\* with timestamps based on offset off
BasedOn(n, i, k, off) ==
    /\ video_clips[1][n].script_segment = response[1][i].clips[k].script_segment
    /\ video_clips[1][n].timestamp_start
          = Shifted(response[1][i].clips[k].timestamp_start, off)
    /\ video_clips[1][n].timestamp_end
          = Shifted(response[1][i].clips[k].timestamp_end, off)

ScenarioShape ==
    /\ [i \in 1..Len(chunks[1]) |-> chunks[1][i].duration] = <<40, 40, 15>>
    /\ [i \in 1..Len(chunks[1]) |-> chunks[1][i].start_offset] = <<0, 40, 80>>
    /\ Len(video_clips[1]) = 4
    /\ \A n \in 1..4 : video_clips[1][n].clip_number = n
    /\ \E k \in 1..Len(video_transcript[1]) :
          /\ video_transcript[1][k].t = "failed: reason"
          /\ video_transcript[1][k].chunk = 1

\* C10 as stated: in the scenario the output has 4 clips numbered 1-4,
\* clip 3's timestamps are based on offset 0 and clip 4's on offset 80, and
\* the transcript has a placeholder for chunk index 1.
C10_AsStated ==
    Scenario95 =>
        /\ ScenarioShape
        /\ \E i \in {1, 3} : \E k \in 1..Len(response[1][i].clips) :
              BasedOn(3, i, k, 0)
        /\ \E i \in {1, 3} : \E k \in 1..Len(response[1][i].clips) :
              BasedOn(4, i, k, 80)

\* C10 amended: in the scenario the output has 4 clips numbered 1-4, clips 1
\* and 2 are the clips of the chunk at offset 0 with timestamps based on
\* offset 0, clips 3 and 4 are the clips of the chunk at offset 80 with
\* timestamps based on offset 80, and the transcript has a placeholder for
\* chunk index 1.
C10_Scenario ==
    Scenario95 =>
        /\ ScenarioShape
        /\ BasedOn(1, 1, 1, 0)
        /\ BasedOn(2, 1, 2, 0)
        /\ BasedOn(3, 3, 1, 80)
        /\ BasedOn(4, 3, 2, 80)

\* the scenario was run to the end, the failed chunk collected first
C10_Witness ==
    /\ Scenario95
    /\ chunk_results[1][1].chunk_index = 1
    /\ Len(video_clips[1]) = 4


\* the results of video v in chunk order
SortedResults(v) == sorted_by_chunk_index(chunk_results[v])

\* the failed results of video v in chunk order
FailedResults(v) == SelectSeq(SortedResults(v), LAMBDA r : ~r.success)

\* the transcript of v without its separators, and its placeholders
TranscriptTokens(v) == SelectSeq(video_transcript[v], LAMBDA tok : tok.t # "space")

Placeholders(v) ==
    SelectSeq(video_transcript[v], LAMBDA tok : tok.t \in {"failed", "failed: reason"})

\* C11: on both assembly paths the assembled transcript holds, for every
\* failed ChunkResult, one placeholder naming the chunk's index and carrying
\* the failure reason verbatim, at the chunk's position in chunk_index
\* order, and the failed chunk gives no clip to the output sequence.
C11_PlaceholderCarriesReason ==
    \A v \in Videos :
        Assembled(v) =>
            /\ Placeholders(v)
                  = [k \in 1..Len(FailedResults(v)) |->
                        [t |-> "failed: reason",
                         chunk |-> FailedResults(v)[k].chunk_index,
                         error |-> FailedResults(v)[k].error]]
            /\ \A a, b \in 1..Len(TranscriptTokens(v)) :
                  a < b => TranscriptTokens(v)[a].chunk < TranscriptTokens(v)[b].chunk
            /\ \A n \in 1..Len(video_clips[v]) : \A k \in 1..Len(FailedResults(v)) :
                  video_clips[v][n].script_segment[1] # FailedResults(v)[k].chunk_index

AllChunksFailed(v) ==
    /\ Len(chunks[v]) >= 1
    /\ Len(chunk_results[v]) = Len(chunks[v])
    /\ \A k \in 1..Len(chunk_results[v]) : ~chunk_results[v][k].success

\* C12: when every chunk of a video fails, processing the video does not
\* raise: once the dispatcher is through, the assembly step can be taken,
\* and the result it returns is a normal one with no clips (clips_count = 0),
\* a transcript made of one failure placeholder per chunk and nothing else,
\* and the counts chunks_successful = 0 and chunks_total = N.
C12_AllChunksFailed ==
    \A v \in Videos :
        AllChunksFailed(v) =>
            /\ vpc[v] # "raised"
            /\ AllCollected(v) =>
                  IF mode = "single" THEN ENABLED FinishVideo
                                     ELSE ENABLED AssembleStandalone(v)
            /\ Dispatched(v) =>
                  /\ video_result[v].returned
                  /\ video_result[v].success
                  /\ video_result[v].error = ""
                  /\ video_result[v].clips = << >>
                  /\ video_result[v].clips_count = 0
                  /\ video_result[v].chunks_successful = 0
                  /\ video_result[v].chunks_total = Len(chunks[v])
                  /\ video_clips[v] = << >>
                  /\ Len(TranscriptTokens(v)) = Len(chunks[v])
                  /\ TranscriptTokens(v) = Placeholders(v)
                  /\ \A i \in ChunkIdx(v) :
                        TranscriptTokens(v)[i].chunk = chunks[v][i].chunk_index

\* a video of several chunks, all of which failed, has returned its result
C12_Witness ==
    \E v \in Videos :
        /\ AllChunksFailed(v)
        /\ Dispatched(v)
        /\ Len(chunks[v]) >= 2
        /\ video_result[v].returned

\* C13: when the media of one chunk cannot be extracted even by the
\* re-encoding fallback, the video is not failed and nothing is raised: the
\* other chunks are extracted and dispatched and the video yields a result.
C13_ExtractionFailureIsLocal ==
    \A v \in Videos :
        video_result[v].error = ChunkExtractionError =>
            /\ vpc[v] # "raised"
            /\ Len(chunks[v]) >= 1
            /\ video_result[v].returned => video_result[v].success

\* the entries of all_results the aggregation loop has gone through
Aggregated == SubSeq(all_results, 1, agg_i)

RECURSIVE SumClipsCount(_)
SumClipsCount(rs) ==
    IF rs = << >> THEN 0
    ELSE (IF rs[1].success THEN rs[1].clips_count ELSE 0) + SumClipsCount(Tail(rs))

SuccessfulVideos(rs) == Cardinality({ k \in 1..Len(rs) : rs[k].success })

\* C14: in a batch run a video-level failure is a failed result of that
\* video alone.  When aggregation runs every video has exactly one result;
\* a failed video has no clips, none of its clips is merged and it does not
\* count in videos_analyzed; the counters of the ontology have grown by the
\* successful videos aggregated so far and their clips; and at the end
\* every clip of every successful sibling has been merged.
C14_VideoFailureIsLocal ==
    (mode = "batch" /\ mpc \in {"aggregate", "done"}) =>
        /\ Len(all_results) = Cardinality(Videos)
        /\ \A v \in Videos :
              /\ Cardinality({ k \in 1..Len(all_results) : all_results[k].video = v }) = 1
              /\ video_result[v].returned
              /\ ~video_result[v].success =>
                    /\ video_result[v].clips = << >>
                    /\ video_result[v].clips_count = 0
                    /\ MergesOf(v) = << >>
              /\ (video_result[v].success /\ mpc = "done") =>
                    MergesOf(v) = [n \in 1..Len(video_clips[v]) |->
                                      [video |-> v, clip |-> video_clips[v][n]]]
        /\ mpc = "aggregate" =>
              /\ master_ontology.videos_analyzed
                    = load_binary(ontology_file).videos_analyzed
                         + SuccessfulVideos(Aggregated)
              /\ master_ontology.total_clips_analyzed
                    = load_binary(ontology_file).total_clips_analyzed
                         + SumClipsCount(Aggregated)
        /\ mpc = "done" => ontology_file = FileOf(master_ontology)

\* a finished batch run whose first video failed at the video level and
\* whose second video was merged with its clips, over a loaded ontology
C14_Witness ==
    /\ mode = "batch"
    /\ mpc = "done"
    /\ ~video_result[1].success
    /\ video_result[2].success
    /\ Len(MergesOf(2)) >= 2
    /\ master_ontology.videos_analyzed = 2


(***************************************************************************)
(* Properties of the merge (OntologySpec)                                  *)
(***************************************************************************)
\* the number of attributes of clip that feed the value v into category cat
Contributions(clip, cat, v) ==
    Cardinality({ i \in 1..Len(CategoryFeeds) :
                     /\ CategoryFeeds[i][1] = cat
                     /\ clip[CategoryFeeds[i][2]] = v })

\* one clip was merged twice into a fresh ontology
MergedTwice ==
    /\ Len(ont_clips) = 2
    /\ ont_clips[1] = ont_clips[2]

\* C15 as stated: after the same clip was merged twice into a fresh
\* ontology, every non-empty attribute value of the clip has the frequency
\* count 2 in its category, for every clip, also one whose primary and
\* secondary emotion, or whose transitions in and out, are equal.
C15_AsStated ==
    MergedTwice =>
        \A i \in 1..Len(CategoryFeeds) :
            LET cat == ont.categories[CategoryFeeds[i][1]]
                v == ont_clips[1][CategoryFeeds[i][2]]
            IN  v # "" => (v \in DOMAIN cat.frequency /\ cat.frequency[v] = 2)

\* C15 amended: after the same clip was merged twice into a fresh ontology,
\* every non-empty attribute value of the clip has, in its category, the
\* count 2 for each attribute of the clip that holds it: 2 when one
\* attribute holds the value, 4 when primary and secondary emotion (or
\* transition_in and transition_out) hold the same value; and the
\* categories hold nothing else.
C15_TwicePerAttribute ==
    MergedTwice =>
        /\ \A i \in 1..Len(CategoryFeeds) :
              LET name == CategoryFeeds[i][1]
                  cat == ont.categories[name]
                  v == ont_clips[1][CategoryFeeds[i][2]]
              IN  v # "" =>
                     /\ v \in cat.values
                     /\ v \in DOMAIN cat.frequency
                     /\ cat.frequency[v] = 2 * Contributions(ont_clips[1], name, v)
                     /\ cat.frequency[v] \in {2, 4}
        /\ \A name \in CategoryNames :
              ont.categories[name].values
                 = { ont_clips[1][CategoryFeeds[i][2]] :
                        i \in { j \in 1..Len(CategoryFeeds) :
                                   CategoryFeeds[j][1] = name } } \ {""}

\* a clip with equal emotions and equal transitions was merged twice
C15_Witness ==
    /\ MergedTwice
    /\ ont_clips[1].primary_emotion # ""
    /\ ont_clips[1].primary_emotion = ont_clips[1].secondary_emotion
    /\ ont_clips[1].transition_in # ""
    /\ ont_clips[1].transition_in = ont_clips[1].transition_out
    /\ ont.categories["emotions"].frequency[ont_clips[1].primary_emotion] = 4
    /\ ont.categories["clip_functions"].frequency[ont_clips[1].clip_function] = 2

CategoryInvariant(cat) ==
    /\ DOMAIN cat.frequency = cat.values
    /\ \A v \in cat.values : cat.frequency[v] >= 1
    /\ "" \notin cat.values

\* C16: in every state of every category the keys of frequency are the
\* members of the value set, every count is at least 1 and the empty string
\* is not a member; and over every merge no value is removed and no count
\* decreases.
C16_CategoryInvariant ==
    [][ \A name \in CategoryNames :
           LET cat == ont.categories[name]
               cat2 == ont'.categories[name]
           IN  /\ CategoryInvariant(cat)
               /\ CategoryInvariant(cat2)
               /\ cat.values \subseteq cat2.values
               /\ \A v \in cat.values : cat2.frequency[v] >= cat.frequency[v] ]_vars

\* clips with empty and repeated values were merged: a count of 3, a
\* category with two values, a category still empty
C16_Witness ==
    /\ Len(ont_clips) = 3
    /\ \E k \in 1..3 : ont_clips[k].primary_emotion = ""
    /\ "joy" \in ont.categories["emotions"].values
    /\ ont.categories["emotions"].frequency["joy"] >= 3
    /\ Cardinality(ont.categories["transition_types"].values) = 2
    /\ ont.categories["camera_angles"].values = {}


\* the clips of the merged sequence that carry the function f, and those of
\* them the duration tracking looks at
ClipsOf(f) == SelectSeq(ont_clips, LAMBDA c : c.clip_function = f)

TimedClipsOf(f) ==
    SelectSeq(ClipsOf(f), LAMBDA c : fl_less(Number(0, 1), c.duration_seconds))

RECURSIVE SumSeconds(_)
SumSeconds(cs) ==
    IF cs = << >> THEN Number(0, 1)
    ELSE fl_add(SumSeconds(SubSeq(cs, 1, Len(cs) - 1)),
                cs[Len(cs)].duration_seconds)

\* the arithmetic mean of the durations of a non-empty clip list
MeanSeconds(cs) == fl_div(SumSeconds(cs), Len(cs))

\* C17: after any sequence of merges function_duration_averages[f] is the
\* arithmetic mean of the durations of the clips submitted with function f
\* (read either over all of them or over those with a duration above 0),
\* and every permutation of the merge order ends with the same averages,
\* also when clips of f with duration > 0 and with duration 0 are mixed.
C17_AverageIsMean ==
    /\ \A f \in DOMAIN ont.function_duration_averages :
          \/ ont.function_duration_averages[f] = MeanSeconds(ClipsOf(f))
          \/ ont.function_duration_averages[f] = MeanSeconds(TimedClipsOf(f))
    /\ \A p \in Permutations(1..Len(ont_clips)) :
          merge_clips(EmptyOntology, Permuted(ont_clips, p)).function_duration_averages
             = ont.function_duration_averages

\* the step is a merge, and the clip it merged
IsMerge == ont_clips' # ont_clips

MergedClip == ont_clips'[Len(ont_clips')]

\* C18: when a clip with a non-empty function f and a duration d > 0 is
\* merged and f has an average old_avg, the new average of f is
\* old_avg + (d - old_avg) / count with count the frequency of f in
\* clip_functions after the merge, and no other average changes; when the
\* function is empty or d <= 0 the averages are left as they were.
C18_IncrementalMean ==
    [][ IsMerge =>
          LET f == MergedClip.clip_function
              d == MergedClip.duration_seconds
              old == ont.function_duration_averages
              new == ont'.function_duration_averages
              count == ont'.categories["clip_functions"].frequency[f]
          IN  IF f # "" /\ fl_less(Number(0, 1), d)
              THEN f \in DOMAIN old =>
                      /\ DOMAIN new = DOMAIN old
                      /\ new[f] = fl_add(old[f],
                                         fl_div(fl_sub(d, old[f]), count))
                      /\ \A g \in DOMAIN old : g # f => new[g] = old[g]
              ELSE new = old ]_vars

\* the co-occurrence count of function g and emotion e in the table t
CorrelationCount(t, g, e) ==
    IF g \in DOMAIN t /\ e \in DOMAIN t[g] THEN t[g][e] ELSE 0

\* the <<function, emotion>> pairs the table t has an entry for
CorrelationKeys(t) ==
    UNION { { <<g, e>> : e \in DOMAIN t[g] } : g \in DOMAIN t }

\* C19: a merge of a clip with non-empty function f and non-empty primary
\* emotion e adds exactly 1 to the entry [f][e] of
\* emotion_function_correlations (an entry that did not exist becomes 1) and
\* changes no other entry; any other merge leaves the table as it was; the
\* secondary emotion has no effect on the table.
C19_CorrelationCount ==
    [][ IsMerge =>
          LET f == MergedClip.clip_function
              e == MergedClip.primary_emotion
              old == ont.emotion_function_correlations
              new == ont'.emotion_function_correlations
          IN  IF f # "" /\ e # ""
              THEN /\ DOMAIN new = DOMAIN old \cup {f}
                   /\ CorrelationKeys(new) = CorrelationKeys(old) \cup {<<f, e>>}
                   /\ new[f][e] = CorrelationCount(old, f, e) + 1
                   /\ \A k \in CorrelationKeys(old) :
                         k # <<f, e>> => new[k[1]][k[2]] = old[k[1]][k[2]]
                   /\ \A g \in DOMAIN new : "" \notin DOMAIN new[g]
                   /\ MergedClip.secondary_emotion # e =>
                         CorrelationCount(new, f, MergedClip.secondary_emotion)
                            = CorrelationCount(old, f, MergedClip.secondary_emotion)
              ELSE new = old ]_vars

\* hook and joy were seen together twice, by clips whose secondary emotions
\* differ, next to a clip without primary emotion
C19_Witness ==
    /\ Len(ont_clips) = 3
    /\ CorrelationCount(ont.emotion_function_correlations, "hook", "joy") = 2
    /\ CorrelationCount(ont.emotion_function_correlations, "hook", "fear") = 0
    /\ \E k \in 1..3 : /\ ont_clips[k].primary_emotion = ""
                       /\ ont_clips[k].secondary_emotion = "joy"
    /\ \E k \in 1..3 : /\ ont_clips[k].primary_emotion = "joy"
                       /\ ont_clips[k].secondary_emotion = "fear"


(***************************************************************************)
(* Properties of the per-video bookkeeping (Spec)                          *)
(***************************************************************************)
\* the non-empty clip_function values of a clip list, in order
FunctionSequence(clips) ==
    SelectSeq([n \in 1..Len(clips) |-> clips[n].clip_function], LAMBDA f : f # "")

\* the step finishes the processing of one video's clips: the single-video
\* path returns, or the batch aggregation loop has gone through one
\* successful video
VideoProcessed ==
    \/ mode = "single" /\ mpc = "dispatch" /\ mpc' = "done"
    \/ /\ mode = "batch" /\ mpc = "aggregate" /\ agg_i' = agg_i + 1
       /\ all_results[agg_i + 1].success

\* the assembled clips of the video that step is about
ProcessedClips ==
    IF mode = "single" THEN video_clips'[1] ELSE all_results[agg_i + 1].clips

\* C20: when all clips of one video have been processed, on the
\* single-video and on the batch path, videos_analyzed has grown by exactly
\* 1 and common_sequences by exactly one element, the video's ordered list
\* of non-empty clip_function values; no other step changes either, and
\* common_sequences only ever grows at its end.
C20_VideoBookkeeping ==
    [][ /\ VideoProcessed =>
              /\ master_ontology'.videos_analyzed
                    = master_ontology.videos_analyzed + 1
              /\ master_ontology'.common_sequences
                    = Append(master_ontology.common_sequences,
                             FunctionSequence(ProcessedClips))
        /\ (~VideoProcessed /\ mpc # "wait") =>
              /\ master_ontology'.videos_analyzed = master_ontology.videos_analyzed
              /\ master_ontology'.common_sequences = master_ontology.common_sequences
      ]_vars

(***************************************************************************)
(* Playbook properties                                                     *)
(***************************************************************************)
\* the example lists of a brain: one per clip type and one per function
ExampleLists(b) ==
    { b.playbook[k] : k \in DOMAIN b.playbook }
        \cup { b.by_function[k] : k \in DOMAIN b.by_function }

\* the positions of list l whose script, lower-cased, is the given text
Spelled(l, text) == { i \in 1..Len(l) : lower(l[i].script) = text }

IsPrefix(a, b) == Len(a) <= Len(b) /\ SubSeq(b, 1, Len(a)) = a

\* a call of the named operation has just been made
JustCalled(op) == pb_last.op = op /\ pb_n > 0

\* this step is a call of the named operation
IsCall(op) == pb_n' = pb_n + 1 /\ pb_last'.op = op

WithinCap(b) == \A l \in ExampleLists(b) : Len(l) <= PLAYBOOK_CAP

\* C22: each key's list holds at most 50 entries; a list of 50 is left as
\* it is by every further call; and every call leaves each list as a
\* prefix of what it becomes: no entry is removed, replaced or reordered
C22_CapNoEviction ==
    [][ /\ WithinCap(brain')
        /\ \A k \in DOMAIN brain.playbook :
              /\ k \in DOMAIN brain'.playbook
              /\ IsPrefix(brain.playbook[k], brain'.playbook[k])
              /\ Len(brain.playbook[k]) = PLAYBOOK_CAP =>
                     brain'.playbook[k] = brain.playbook[k]
        /\ \A k \in DOMAIN brain.by_function :
              /\ k \in DOMAIN brain'.by_function
              /\ IsPrefix(brain.by_function[k], brain'.by_function[k])
              /\ Len(brain.by_function[k]) = PLAYBOOK_CAP =>
                     brain'.by_function[k] = brain.by_function[k]
      ]_vars

\* a clip with a script no stored entry has was just learned into lists
\* that hold 50 entries, and is not among them
C22_Witness ==
    /\ JustCalled("learn")
    /\ LET clip == pb_last.clips[1]
           script == strip(clip.script_segment)
           byType == brain.playbook[_determine_clip_type(clip)]
           byFunc == brain.by_function[dict_get(clip.clip_function, "unknown")]
       IN  /\ script # << >>
           /\ Len(byType) = PLAYBOOK_CAP
           /\ Len(byFunc) = PLAYBOOK_CAP
           /\ Spelled(byType, lower(script)) = {}
           /\ Spelled(byFunc, lower(script)) = {}

\* the attributes of the classified clip, lower-cased
Classified == pb_last.clips[1]
SubjectOf(clip) == attr_lower(clip.subject_type)
ActionOf(clip) == attr_lower(clip.subject_action)
IsScreenRecording(clip) ==
    contains("screen_recording", attr_lower(clip.setting_type))
MentionsProduct(clip) ==
    contains("product", attr_lower(clip.subject_description))
MentionsCustomer(clip) ==
    \/ contains("testimonial", attr_lower(clip.subject_description))
    \/ contains("customer", attr_lower(clip.subject_description))

\* the decision table, in priority order, for a clip that is
\* product-related or not
DecisionTable(clip, product, r) ==
    LET text == SubjectOf(clip) \in {"text_screen", "graphic"}
        screen == IsScreenRecording(clip)
        person == SubjectOf(clip) = "person"
        speaking == ActionOf(clip) = "speaking"
        demonstrating == ActionOf(clip) = "demonstrating"
        earlier == product \/ text \/ screen
    IN  /\ r \in {"product_shot", "text_graphic", "screen_demo",
                  "talking_head", "demonstration", "testimonial",
                  "lifestyle", "broll", "other"}
        /\ product => r = "product_shot"
        /\ ~product /\ text => r = "text_graphic"
        /\ ~product /\ ~text /\ screen => r = "screen_demo"
        /\ ~earlier /\ person /\ speaking => r = "talking_head"
        /\ ~earlier /\ person /\ ~speaking /\ demonstrating =>
               r = "demonstration"
        /\ ~earlier /\ person /\ ~speaking /\ ~demonstrating
               /\ MentionsCustomer(clip) => r = "testimonial"
        /\ ~earlier /\ person /\ ~speaking /\ ~demonstrating
               /\ ~MentionsCustomer(clip) => r = "lifestyle"
        /\ ~earlier /\ ~person /\ SubjectOf(clip) = "b_roll" => r = "broll"
        /\ ~earlier /\ ~person /\ SubjectOf(clip) # "b_roll" => r = "other"

\* C23 as stated: the clip type follows the decision table over the
\* subject type, the setting type and the action, the description being
\* read only to tell a testimonial from a lifestyle clip
C23_AsStated ==
    pb_last.op = "classify" =>
        DecisionTable(Classified, SubjectOf(Classified) = "product",
                      pb_last.result)

\* C23, amended: the clip type follows the decision table in the priority
\* order product_shot, text_graphic, screen_demo, talking_head,
\* demonstration, testimonial, lifestyle, broll, other, where a clip is
\* product-related when its subject type is product or its subject
\* description mentions a product; a person speaking is a talking head
\* unless an earlier row applies; the result is one of the nine values
C23_DecisionTable ==
    pb_last.op = "classify" =>
        /\ DecisionTable(Classified,
                         SubjectOf(Classified) = "product"
                             \/ MentionsProduct(Classified),
                         pb_last.result)
        /\ SubjectOf(Classified) = "person"
               /\ ActionOf(Classified) = "speaking"
               /\ ~MentionsProduct(Classified)
               /\ ~IsScreenRecording(Classified) =>
                   pb_last.result = "talking_head"

\* a person speaking whose description mentions a product was classified
\* a product shot
C23_Witness ==
    /\ pb_last.op = "classify"
    /\ SubjectOf(Classified) = "person"
    /\ ActionOf(Classified) = "speaking"
    /\ MentionsProduct(Classified)
    /\ pb_last.result = "product_shot"

\* every transition key holds at most 20 examples
TransitionsWithinCap(b) ==
    \A k \in DOMAIN b.transitions : Len(b.transitions[k]) <= TRANSITION_CAP

\* C24: learn_transition(clip_a, clip_b) appends one example holding the
\* scripts of both clips under the key of type_a and type_b when that key
\* holds fewer than 20 examples, changes nothing when it holds 20, stores
\* a pair again when it is learned again, and leaves every other key and
\* the example lists alone; every key holds at most 20 examples
C24_LearnTransition ==
    [][ /\ TransitionsWithinCap(brain')
        /\ IsCall("transition") =>
              LET clip_a == pb_last'.clips[1]
                  clip_b == pb_last'.clips[2]
                  key == <<_determine_clip_type(clip_a),
                           _determine_clip_type(clip_b)>>
                  before == MapGet(brain.transitions, key, << >>)
                  after == MapGet(brain'.transitions, key, << >>)
              IN  /\ Len(before) < TRANSITION_CAP =>
                         /\ Len(after) = Len(before) + 1
                         /\ IsPrefix(before, after)
                         /\ after[Len(after)].from_script =
                                clip_a.script_segment
                         /\ after[Len(after)].to_script =
                                clip_b.script_segment
                  /\ Len(before) = TRANSITION_CAP => after = before
                  /\ \A k \in DOMAIN brain'.transitions \ {key} :
                         /\ k \in DOMAIN brain.transitions
                         /\ brain'.transitions[k] = brain.transitions[k]
                  /\ brain'.playbook = brain.playbook
                  /\ brain'.by_function = brain.by_function
      ]_vars

\* a pair of clips of different types was learned twice and is stored
\* twice under its key
C24_Witness ==
    /\ JustCalled("transition")
    /\ LET clip_a == pb_last.clips[1]
           clip_b == pb_last.clips[2]
           key == <<_determine_clip_type(clip_a), _determine_clip_type(clip_b)>>
       IN  /\ key[1] # key[2]
           /\ key \in DOMAIN brain.transitions
           /\ Len(brain.transitions[key]) = 2
           /\ brain.transitions[key][1] = brain.transitions[key][2]
           /\ brain.transitions[key][2].from_script = clip_a.script_segment

\* the brain after learn_transition on clips[i], clips[i+1], then on
\* clips[i+1], clips[i+2], and so on to the end of the list
RECURSIVE LearnAdjacent(_, _, _)
LearnAdjacent(b, clips, i) ==
    IF i >= Len(clips) THEN b
    ELSE LearnAdjacent(learn_transition(b, clips[i], clips[i + 1]),
                       clips, i + 1)

\* C25: learn_sequence on n clips makes n-1 calls of learn_transition, on
\* each clip and its successor from the first pair to the last, and none
\* when n <= 1; the brain is changed by those calls and by nothing else
C25_LearnSequence ==
    [][ IsCall("sequence") =>
          LET clips == pb_last'.clips
              calls == pb_last'.calls
              n == Len(clips)
          IN  /\ Len(calls) = IF n <= 1 THEN 0 ELSE n - 1
              /\ \A i \in 1..Len(calls) :
                     calls[i] = <<clips[i], clips[i + 1]>>
              /\ n <= 1 => brain' = brain
              /\ brain' = LearnAdjacent(brain, clips, 1)
      ]_vars

\* learn_sequence was called on three clips, the first two of one type and
\* the third of another, and a key holds the first pair as its last example
C25_Witness ==
    /\ JustCalled("sequence")
    /\ Len(pb_last.clips) = 3
    /\ Len(pb_last.calls) = 2
    /\ LET clips == pb_last.clips
           key == <<_determine_clip_type(clips[1]),
                    _determine_clip_type(clips[2])>>
           other == <<_determine_clip_type(clips[2]),
                      _determine_clip_type(clips[3])>>
       IN  /\ key # other
           /\ key \in DOMAIN brain.transitions
           /\ other \in DOMAIN brain.transitions
           /\ LET l == brain.transitions[key]
                  m == brain.transitions[other]
              IN  /\ l[Len(l)].from_script = clips[1].script_segment
                  /\ l[Len(l)].to_script = clips[2].script_segment
                  /\ m[Len(m)].from_script = clips[2].script_segment
                  /\ m[Len(m)].to_script = clips[3].script_segment


(***************************************************************************)
(* Properties of the feeding of the Playbook                               *)
(***************************************************************************)
\* the brain after one video's clips were fed to it: learn_from_clip per
\* clip, learn_sequence once, one more video learned from
Fed(b, clips) ==
    [LearnAdjacent(learn_clips(b, clips), clips, 1) EXCEPT
        !.videos_learned_from = b.videos_learned_from + 1]

\* the iterative path feeds the brain with every video it merges
IterativePathFeedsPlaybook ==
    [][ \A v \in Videos :
          vpc[v] = "analyzed" /\ vpc'[v] = "updated" =>
              /\ master_ontology'.videos_analyzed
                    = master_ontology.videos_analyzed + 1
              /\ brain' = Fed(brain, response[v][1].clips)
      ]_vars

\* C26: whenever the clips of a video are merged into the Master Ontology
\* on the chunked paths (single video and batch), the video is fed to the
\* Playbook as well: learn_from_clip per clip, learn_sequence once, and
\* videos_learned_from grows by exactly 1
C26_PlaybookFed ==
    [][ VideoProcessed => brain' = Fed(brain, ProcessedClips) ]_vars


(***************************************************************************)
(* Properties of the timestamp correction (TimestampSpec)                  *)
(***************************************************************************)
\* a "MM:SS.mmm" text: seconds below 60, three digits of milliseconds
WellFormed(ts) ==
    /\ ts.kind = "ok"
    /\ ts.min >= 0
    /\ ts.sec \in 0..59
    /\ ts.ms \in 0..999

\* C27: for every well-formed chunk-local timestamp t and every chunk
\* offset O >= 0, adding O yields the rendering of (value of t + O), and
\* adding -O to that result gives t back
C27_RoundTrip ==
    WellFormed(ts_t) /\ ts_O >= 0 =>
        /\ ts_pc \in {"corrected", "undone"} =>
               /\ ts_out = TsOfMs(TsValueMs(ts_t) + ts_O * 1000)
               /\ WellFormed(ts_out)
               /\ TsValueMs(ts_out) = TsValueMs(ts_t) + ts_O * 1000
        /\ ts_pc = "undone" => ts_back = ts_t

\* a timestamp with milliseconds was moved by an offset that carried its
\* seconds into the minutes, and was moved back
C27_Witness ==
    /\ ts_pc = "undone"
    /\ WellFormed(ts_t)
    /\ ts_t.ms > 0
    /\ ts_O > 0
    /\ ts_out.min > ts_t.min
    /\ ts_out.sec < ts_t.sec
    /\ ts_back = ts_t

(***************************************************************************)
(* Properties of the category report (OntologySpec)                        *)
(***************************************************************************)
\* the values add_value was called with for the named category while the
\* clip was merged, in call order
FeedsOfClip(name, clip) ==
    LET fed == SelectSeq([i \in 1..Len(CategoryFeeds) |-> i],
                         LAMBDA i : CategoryFeeds[i][1] = name)
    IN  [k \in 1..Len(fed) |-> clip[CategoryFeeds[fed[k]][2]]]

\* the same over all merged clips
FeedLog(name) ==
    Flatten([c \in 1..Len(ont_clips) |-> FeedsOfClip(name, ont_clips[c])])

\* the position at which the value was first seen in the category
FirstSeen(name, value) ==
    CHOOSE i \in 1..Len(FeedLog(name)) :
        /\ FeedLog(name)[i] = value
        /\ \A j \in 1..(i - 1) : FeedLog(name)[j] # value

\* C28: a category's report lists its values in descending frequency,
\* values of equal frequency in the order they were first seen, at most
\* the top 20 of them, each with its stored count
C28_ReportOrder ==
    ont_report # NoReport =>
        LET name == ont_report.category
            lines == ont_report.lines
            cat == ont.categories[name]
        IN  /\ Len(lines) <= REPORT_TOP
            /\ Len(lines) = Min(REPORT_TOP, Cardinality(cat.values))
            /\ \A i \in 1..Len(lines) :
                   /\ lines[i].value \in cat.values
                   /\ lines[i].count = cat.frequency[lines[i].value]
            /\ \A i, j \in 1..Len(lines) :
                   i < j =>
                       /\ lines[i].count >= lines[j].count
                       /\ lines[i].count = lines[j].count =>
                              FirstSeen(name, lines[i].value)
                                  < FirstSeen(name, lines[j].value)

\* the report is sorted by descending frequency and changes nothing
ReportSortedAndPure ==
    [][ ont_report' # NoReport =>
          /\ \A i, j \in 1..Len(ont_report'.lines) :
                 i < j => ont_report'.lines[i].count
                             >= ont_report'.lines[j].count
          /\ ont_report # ont_report' => ont' = ont
      ]_vars

(***************************************************************************)
(* Properties of the worker pools (Spec)                                   *)
(***************************************************************************)
\* the chunks of video v whose adapter call has started and not come back
InFlight(ws, v) ==
    { i \in 1..Len(ws[v]) : ws[v][i] \in {"running", "blocked"} }

\* all calls in flight, over all videos
AllInFlight(ws) ==
    UNION { { <<v, i>> : i \in InFlight(ws, v) } : v \in Videos }

CompleteRecords(text) ==
    Cardinality({ i \in 1..(Len(text) - 2) :
                     text[i] = "{" /\ text[i + 1] = "clip" /\ text[i + 2] = "}" })

\* the text is a document that ends inside one of its records, at least
\* one record before it being complete
TruncatedMidRecord(text) ==
    /\ text # << >>
    /\ text[Len(text)] \in {"{", "clip"}
    /\ CompleteRecords(text) >= 1

\* C30: a response truncated in the middle of a record is recovered: the
\* chunk's result is a success that carries the complete records
C30_TruncatedRecovered ==
    pr_pc = "parsed" /\ TruncatedMidRecord(pr_raw) =>
        /\ pr_result.success
        /\ Len(pr_result.clips) = CompleteRecords(pr_raw)

\* whole documents are parsed bare, padded, fenced and inside prose, and
\* every call ends with a ChunkResult: a success with the clips, or a
\* failure with the error text
WholeDocumentsParsed ==
    pr_pc # "call" /\ pr_pc # "idle" =>
        /\ pr_result.chunk_index = pr_chunk.chunk_index
        /\ pr_result.success <=> pr_result.error = ""
        /\ pr_pc = "api_error" => ~pr_result.success
        /\ \A n \in 0..MaxClips :
               (/\ pr_pc = "parsed"
                /\ pr_raw \in { Document(n),
                                <<"ws">> \o Document(n) \o <<"ws">>,
                                <<"fence_json", "ws">> \o Document(n)
                                    \o <<"ws", "fence">>,
                                <<"fence">> \o Document(n) \o <<"fence">>,
                                <<"text">> \o Document(n) \o <<"text">>,
                                <<"text", "fence_json">> \o Document(n)
                                    \o <<"fence">> })
                   => pr_result.success /\ Len(pr_result.clips) = n

(***************************************************************************)
(* Persistence of the Master Ontology (Spec)                               *)
(***************************************************************************)
\* what a process started now would load from ontology_path agrees with
\* the ontology o on everything the merges of clips write
SnapshotHoldsMerges(file, o) ==
    [load_binary(file) EXCEPT !.videos_analyzed = 0]
        = [o EXCEPT !.videos_analyzed = 0]

\* C31: at the moment the merge step of a video has finished, on the
\* single-video path and for each video of a batch run, the binary
\* snapshot at ontology_path holds every clip merged so far.
C31_PersistedAfterEachVideo ==
    [][ VideoProcessed => SnapshotHoldsMerges(ontology_file', master_ontology')
      ]_vars

\* on the single-video path the snapshot is written as the video completes
SingleVideoPersisted ==
    mode = "single" /\ mpc = "done" /\ video_result[1].success
        => ontology_file = FileOf(master_ontology)

(***************************************************************************)
(* Properties of the sequential batch processor (IterativeSpec)            *)
(***************************************************************************)
\* the elements of a sequence
Range(s) == { s[i] : i \in 1..Len(s) }

\* the videos the log names as failed
FailedVideos(l) == { l.failed[i].video : i \in 1..Len(l.failed) }

\* process_video(v) returns in this step / raises in this step
Returns(v) == vpc[v] = "updated" /\ vpc'[v] = "returned"
Raises(v) == vpc[v] \in {"queued", "updated"} /\ vpc'[v] = "raised"

C33_SnapshotReloadable ==
    /\ ontology_file.exists => ontology_file.format = "pickle"
    /\ \A v \in Videos :
          vpc[v] = "updated" => ontology_file = FileOf(master_ontology)

\* once process_video has returned, the file is the pickle of the ontology
\* in memory
SnapshotAfterProcessVideo ==
    [][ \A v \in Videos :
          Returns(v) => ontology_file' = FileOf(master_ontology') ]_vars

\* a run was ended by pickle.load on the text report left at ontology_path
CrashedOnTextReport == mpc = "crashed" /\ ontology_file.format = "text"

(***************************************************************************)
(* Counting properties of the Master Ontology (OntologySpec)               *)
(***************************************************************************)
\* the sum of the values of a dict of numbers
RECURSIVE SumValues(_)
SumValues(d) ==
    IF DOMAIN d = {} THEN 0
    ELSE LET k == CHOOSE x \in DOMAIN d : TRUE
         IN  d[k] + SumValues([x \in DOMAIN d \ {k} |-> d[x]])

\* the number of attributes of a clip that feed the category
FeedCount(name) ==
    Cardinality({ i \in 1..Len(CategoryFeeds) : CategoryFeeds[i][1] = name })

\* C34: after any sequence of merges into an empty ontology,
\* total_clips_analyzed is the number of update_from_clip calls; the counts
\* of a category fed by one attribute sum to at most that number, those of
\* emotions and transition_types, fed by two, to at most twice that number;
\* and for every function the correlation counts of its row sum to at most
\* the count of the function in clip_functions.
C34_CountingBounds ==
    /\ ont.total_clips_analyzed = Len(ont_clips)
    /\ \A name \in CategoryNames :
          /\ FeedCount(name) \in {1, 2}
          /\ FeedCount(name) = 2 <=> name \in {"emotions", "transition_types"}
          /\ SumValues(ont.categories[name].frequency)
                <= FeedCount(name) * ont.total_clips_analyzed
    /\ \A f \in DOMAIN ont.emotion_function_correlations :
          SumValues(ont.emotion_function_correlations[f])
             <= MapGet(ont.categories["clip_functions"].frequency, f, 0)

\* three clips were merged, each with both emotions, so that the emotion
\* counts sum to twice the number of clips; one of them carries no function,
\* one no shot type, and the correlation row of "hook" sums to the count of
\* "hook"
C34_Witness ==
    /\ Len(ont_clips) = 3
    /\ SumValues(ont.categories["emotions"].frequency) = 6
    /\ SumValues(ont.categories["shot_types"].frequency) = 2
    /\ SumValues(ont.categories["clip_functions"].frequency) = 2
    /\ "hook" \in DOMAIN ont.emotion_function_correlations
    /\ SumValues(ont.emotion_function_correlations["hook"]) = 2

(***************************************************************************)
(* Range of the duration averages (OntologySpec)                           *)
(***************************************************************************)
\* the positive durations merged so far with function f
PositiveDurations(f) ==
    { TimedClipsOf(f)[i].duration_seconds : i \in 1..Len(TimedClipsOf(f)) }

\* C35: every key of function_duration_averages is a value of
\* clip_functions, and the average of f lies between the smallest and the
\* largest of the positive durations merged so far with function f.
C35_AverageInRange ==
    \A f \in DOMAIN ont.function_duration_averages :
        /\ f \in ont.categories["clip_functions"].values
        /\ PositiveDurations(f) # {}
        /\ \E lo \in PositiveDurations(f), hi \in PositiveDurations(f) :
              /\ \A d \in PositiveDurations(f) :
                    ~fl_less(d, lo) /\ ~fl_less(hi, d)
              /\ ~fl_less(ont.function_duration_averages[f], lo)
              /\ ~fl_less(hi, ont.function_duration_averages[f])

(***************************************************************************)
(* Determinism of a batch run (Spec)                                       *)
(***************************************************************************)
\* the loop of process_directory_parallel, lines 684-693, over the results rs
RECURSIVE AggregateFrom(_, _)
AggregateFrom(o, rs) ==
    IF rs = << >> THEN o
    ELSE AggregateFrom(
            IF result_get_success(rs[1])
            THEN [merge_clips(o, rs[1].clips) EXCEPT !.videos_analyzed = @ + 1]
            ELSE o,
            Tail(rs))

\* the parts of the ontology the claim is about
Tables(o) ==
    [categories |-> [c \in DOMAIN o.categories |-> o.categories[c].frequency],
     correlations |-> o.emotion_function_correlations,
     averages |-> o.function_duration_averages,
     total_clips_analyzed |-> o.total_clips_analyzed,
     videos_analyzed |-> o.videos_analyzed]

\* the aggregation loop of a batch run has merged every result
BatchAggregated == mode = "batch" /\ mpc = "aggregate" /\ agg_i = Len(all_results)

\* C36: when a batch run has aggregated its results, the frequency tables,
\* correlation counts, duration averages, total_clips_analyzed and
\* videos_analyzed of the ontology are those that every other completion
\* order of the same video results ends with, and each video's clip list is
\* the one that every other completion order of its chunks ends with.
C36_BatchDeterminism ==
    BatchAggregated =>
       /\ \A p \in Permutations(1..Len(all_results)) :
             Tables(AggregateFrom(load_binary(ontology_file),
                                  Permuted(all_results, p)))
                = Tables(master_ontology)
       /\ \A v \in Videos : \A q \in Permutations(1..Len(chunk_results[v])) :
             video_result[v].success =>
                renumber(collect_clips(sorted_by_chunk_index(
                            Permuted(chunk_results[v], q))))
                   = video_result[v].clips

\* the counts of C36 alone do not depend on the completion order
CountsDeterministic ==
    BatchAggregated =>
       \A p \in Permutations(1..Len(all_results)) :
          [Tables(AggregateFrom(load_binary(ontology_file),
                                Permuted(all_results, p)))
              EXCEPT !.averages = << >>]
             = [Tables(master_ontology) EXCEPT !.averages = << >>]

(***************************************************************************)
(* Keys of the Playbook (PlaybookSpec)                                     *)
(***************************************************************************)
\* C37: in every state of the Playbook every entry stored under the clip
\* type k carries clip_type k, every entry stored under the function f
\* carries function f, and the clip types that are keys of the playbook are
\* the nine of __post_init__, no more and no fewer.
C37_PlaybookKeys ==
    /\ DOMAIN brain.playbook = ClipTypes
    /\ Cardinality(DOMAIN brain.playbook) = 9
    /\ \A k \in DOMAIN brain.playbook :
          \A i \in 1..Len(brain.playbook[k]) : brain.playbook[k][i].clip_type = k
    /\ \A f \in DOMAIN brain.by_function :
          \A i \in 1..Len(brain.by_function[f]) :
             brain.by_function[f][i].function = f

\* a fresh brain has learned two clips: a speaker holding a product, stored
\* as a product shot under "cta", and a speaker whose record names no
\* function, stored as a talking head under "unknown"
C37_Witness ==
    /\ pb_n = 2
    /\ Len(brain.playbook["product_shot"]) = 1
    /\ brain.playbook["product_shot"][1].function = "cta"
    /\ Len(brain.playbook["talking_head"]) = 1
    /\ DOMAIN brain.by_function = {"cta", "unknown"}
    /\ brain.by_function["unknown"][1].clip_type = "talking_head"

(***************************************************************************)
(* Failed chunks and the aggregates (Spec)                                 *)
(***************************************************************************)
\* the video whose clips the step has processed
ProcessedVideo == IF mode = "single" THEN 1 ELSE all_results[agg_i + 1].video

\* the clip records of the answers the service gave for video v, in chunk
\* order, the chunks it failed on left out
AnsweredClips(v) ==
    Flatten([i \in 1..Len(chunks[v]) |->
               IF response[v][i].kind = "ok" THEN response[v][i].clips ELSE << >>])

\* the service failed on every chunk of video v
AllAnswersFailed(v) ==
    /\ Len(chunks[v]) >= 1
    /\ \A i \in 1..Len(chunks[v]) : response[v][i].kind = "error"

\* C38: the step that processes a video leaves the Master Ontology as
\* merging the clips of the video's successful chunks, and only those,
\* leaves it, with videos_analyzed one higher; when every chunk of the
\* video failed, nothing but videos_analyzed changes.
C38_FailedChunksLeaveAggregates ==
    [][ VideoProcessed =>
          LET v == ProcessedVideo
          IN  /\ master_ontology' =
                    [merge_clips(master_ontology, AnsweredClips(v))
                        EXCEPT !.videos_analyzed = @ + 1]
              /\ AllAnswersFailed(v) =>
                    master_ontology' =
                       [master_ontology EXCEPT !.videos_analyzed = @ + 1] ]_vars

\* process_video has returned for a video of two chunks, both failed, on
\* top of the snapshot of an earlier run: the ontology is that snapshot
\* with videos_analyzed = 2
C38_Witness ==
    /\ mode = "single"
    /\ mpc = "done"
    /\ vpc[1] = "done"
    /\ Len(chunks[1]) = 2
    /\ AllAnswersFailed(1)
    /\ master_ontology = [PriorOntology EXCEPT !.videos_analyzed = 2]
    /\ ontology_file = FileOf(master_ontology)

(***************************************************************************)
(* The chunk offset is applied once (Spec)                                 *)
(***************************************************************************)
\* out is the timestamp raw of the service's answer with the offset off
\* added once when raw is a time, and raw itself when it is empty or does
\* not parse
OffsetOnce(raw, out, off) ==
    IF raw.kind = "ok" THEN out = Shifted(raw, off) ELSE out = raw

\* C39: every clip of a video's output is a clip of the answer for one of
\* the video's chunks whose two timestamps carry that chunk's start_offset
\* exactly once; the correction never fails a chunk: an answer with an empty
\* or unparseable timestamp still gives a successful result with all of its
\* clips, the timestamp handed on as it came, without the offset.
C39_OffsetOnce ==
    \A v \in Videos :
        /\ \A i \in ChunkIdx(v) :
              (response[v][i].kind = "ok" /\ wstate[v][i] \in {"returned", "collected"}) =>
                 /\ future[v][i].success
                 /\ Len(future[v][i].clips) = Len(response[v][i].clips)
        /\ Assembled(v) =>
              \A n \in 1..Len(video_clips[v]) :
                 \E i \in ChunkIdx(v) : \E k \in 1..Len(response[v][i].clips) :
                    LET raw == response[v][i].clips[k]
                        out == video_clips[v][n]
                        off == chunks[v][i].start_offset
                    IN  /\ out.script_segment = raw.script_segment
                        /\ OffsetOnce(raw.timestamp_start, out.timestamp_start, off)
                        /\ OffsetOnce(raw.timestamp_end, out.timestamp_end, off)

\* process_video has returned for a video of 95 s: the clips of the chunk
\* at 40 s run from 00:40.000 to 00:47.500 and from 00:47.500 to 00:55.000,
\* and the clip of the chunk at 80 s, whose answer had an unparseable start
\* and no end, has kept both as they came
C39_Witness ==
    /\ mode = "single"
    /\ mpc = "done"
    /\ video_T[1] = 95
    /\ response[1][1].kind = "error"
    /\ response[1][2] = OkResponse(1, 2)
    /\ response[1][3] = UntimedResponse(2)
    /\ Len(video_clips[1]) = 3
    /\ video_clips[1][1].timestamp_start = Ts(0, 40, 0)
    /\ video_clips[1][2].timestamp_start = Ts(0, 47, 500)
    /\ video_clips[1][2].timestamp_end = Ts(0, 55, 0)
    /\ video_clips[1][3].timestamp_start = BadTs
    /\ video_clips[1][3].timestamp_end = EmptyTs

\* on the timestamp harness: an empty or unparseable text comes back as it
\* was given, whatever the offset
UnparsedUnchanged ==
    (ts_pc # "call" /\ ts_t.kind # "ok") => ts_out = ts_t

=============================================================================
